---- MODULE Spec2Model ----
(***************************************************************************)
(* A model of the iara runtime: the Juro promise engine (promise, then,   *)
(* all, race), the Fugax event loop (schedule, process, cancel) and the   *)
(* Fuss shouter bus (listen, shout, cancel).                               *)
(***************************************************************************)
EXTENDS Integers, Sequences, FiniteSets, TLC

(***************************************************************************)
(* Bounds of the model.                                                    *)
(***************************************************************************)
\* Juro: promises the program holds, and arguments of all() and race()
MaxPromises == 3
MaxArity == 2
\* Fugax: events scheduled, the latest time point, the longest delay
MaxEvents == 2
MaxTime == 2
MaxDelay == 2
\* Fuss: handlers registered
MaxHandlers == 3

\* The promises of the heap, the ones the program dropped included, where
\* it attaches handlers to promises that have one
MaxHeap == 6

(***************************************************************************)
(* Juro: promise values, errors and settle handlers.                       *)
(***************************************************************************)
VARIABLES promises, coordinators, order, exc

juroVars == <<promises, coordinators, order, exc>>

\* Fugax: the timer map, the events, the loop counter, the event guards of
\* the program, and the place process() is at with its locals
VARIABLES timers, events, counter, guards, pc, now, queue, entry

\* The lambda debounce() or throttle() returned: its captures delay and
\* armed, the arguments its functor was invoked with, and the loop counter
\* and the arguments of the last call of the lambda
VARIABLES adapter

\* event_loop::mutex: "unlocked", or the thread whose lock_guard holds it,
\* "process" for the one that calls process() and "thread" for another one
VARIABLES mutex

fugaxVars ==
    <<timers, events, counter, guards, pc, now, queue, entry, adapter,
      mutex>>

\* Fuss: whether the shouter exists, the handler list of each of its
\* messages, the handlers, the message guards of the program, the handlers
\* cancel() was called for, and the place shout() is at (the message, the
\* handler under its iterator) with the handlers it has invoked
VARIABLES shouter, handlers, functors, message_guards, cancelled, shouting,
          element, invoked

fussVars == <<shouter, handlers, functors, message_guards, cancelled,
              shouting, element, invoked>>

vars == <<juroVars, fugaxVars, fussVars>>

Values == {1, 2}
Errors == {"e1", "e2"}

\* A call that returned normally, and std::terminate (an exception that
\* leaves a noexcept function).
NoExc == "none"
Terminate == "terminate"

\* The three promise_error messages of the library.
Unhandled == "Unhandled promise rejection"
ResettleResolve == "Attempted to resolve an already settled promise"
ResettleReject == "Attempted to reject an already settled promise"

\* void_type: the value a void promise is resolved with.
void_type == 0

\* settle_type: empty_type, value_type or std::exception_ptr.
empty_type == [tag |-> "empty", v |-> 0, e |-> ""]
value_type(v) == [tag |-> "value", v |-> v, e |-> ""]
exception_ptr(e) == [tag |-> "error", v |-> 0, e |-> e]

\* What a functor handed to then() does; a: a promise or coordinator,
\* b: a slot of the coordinator, x: the value it throws.
Body(op, a, b, x) == [op |-> op, a |-> a, b |-> b, x |-> x]
NoBody == Body("none", 0, 0, "")

\* The closure then() installs; next = 0: no settle handler attached.
\* calls: the invocations of its two functors, with their arguments.
NoHandler == [next |-> 0, onres |-> NoBody, onrej |-> NoBody, calls |-> <<>>]

\* A promise object. user: the caller holds a promise_ptr to it; root: it
\* was made by a factory (make_pending, make_resolved, make_rejected).
NewPromise(void, state, value, user, root) ==
    [void |-> void, state |-> state, value |-> value,
     on_settle |-> NoHandler, user |-> user, root |-> root]

Heap == [promises |-> promises, coordinators |-> coordinators, order |-> order]

Ok(h) == [h |-> h, exc |-> NoExc]
Throw(h, x) == [h |-> h, exc |-> x]

get_state(h, p) == h.promises[p].state
is_pending(h, p) == get_state(h, p) = "PENDING"
is_resolved(h, p) == get_state(h, p) = "RESOLVED"
is_rejected(h, p) == get_state(h, p) = "REJECTED"
is_settled(h, p) == get_state(h, p) # "PENDING"
has_handler(h, p) == h.promises[p].on_settle.next # 0

SetValue(h, p, value) ==
    [h EXCEPT !.promises[p].value = value]

SetState(h, p, state) ==
    [h EXCEPT !.promises[p].state = state,
              !.order = IF h.promises[p].user THEN Append(@, p) ELSE @]

\* A call made by a noexcept function: an exception leaving it terminates.
NoExcept(r) == IF r.exc = NoExc THEN r ELSE Throw(r.h, Terminate)

\* The closure of p invokes one of its functors with an argument
Invoke(h, p, functor, argument) ==
    [h EXCEPT !.promises[p].on_settle.calls =
        Append(@, [functor |-> functor, argument |-> argument])]

\* The std::exception_ptr an error was moved from
moved_from == exception_ptr("")

RECURSIVE resolve(_, _, _), reject(_, _, _), resolved(_, _), rejected(_, _)
RECURSIVE on_settle(_, _), handle_resolve(_, _, _), handle_reject(_, _, _)
RECURSIVE coordinator_on_resolve(_, _, _, _), coordinator_on_reject(_, _, _)
RECURSIVE void_settler_on_resolve(_, _), race_on_resolve(_, _, _)
RECURSIVE race_on_reject(_, _, _)
RECURSIVE set_settle_handler(_, _, _), then(_, _, _, _, _), pipe(_, _, _)
RECURSIVE pipe_on_resolve(_, _, _), pipe_on_reject(_, _, _, _)

\* resolved() that sets the state and leaves the settle handler for later
resolved_quiet(h, p) == Ok(SetState(h, p, "RESOLVED"))

\* promise_interface::resolved
resolved(h, p) ==
    LET h1 == SetState(h, p, "RESOLVED")
    IN  IF has_handler(h1, p) THEN NoExcept(on_settle(h1, p)) ELSE Ok(h1)

\* rejected() that does not report a rejection nobody handles
rejected_silent(h, p) ==
    LET h1 == SetState(h, p, "REJECTED")
    IN  IF has_handler(h1, p) THEN on_settle(h1, p) ELSE Ok(h1)

\* promise_interface::rejected
rejected(h, p) ==
    LET h1 == SetState(h, p, "REJECTED")
    IN  IF has_handler(h1, p) THEN on_settle(h1, p) ELSE Throw(h1, Unhandled)

\* resolve() without the check for a settled promise
resolve_unchecked(h, p, v) == resolved(SetValue(h, p, value_type(v)), p)

\* promise::resolve
resolve(h, p, v) ==
    IF is_settled(h, p)
    THEN Throw(h, ResettleResolve)
    ELSE resolved(SetValue(h, p, value_type(v)), p)

\* promise::reject
reject(h, p, e) ==
    IF is_settled(h, p)
    THEN Throw(h, ResettleReject)
    ELSE rejected(SetValue(h, p, exception_ptr(e)), p)

\* A functor that returns void, followed by next_promise->resolve().
ThenResolveNext(r, next) ==
    IF r.exc # NoExc THEN r ELSE resolve(r.h, next, void_type)

\* on_resolve() that fills the working area in the order of completion
coordinator_on_resolve_by_completion(h, c, slot, v) ==
    LET n == Len(h.coordinators[c].working_area)
        k == n - h.coordinators[c].counter + 1
        h1 == [h EXCEPT !.coordinators[c].working_area[k] =
                            [set |-> TRUE, v |-> v],
                        !.coordinators[c].counter = @ - 1]
        co == h1.coordinators[c]
    IN  IF co.counter = 0 /\ is_pending(h1, co.promise)
        THEN resolve(h1, co.promise,
                     [i \in 1..Len(co.working_area) |-> co.working_area[i].v])
        ELSE Ok(h1)

\* all_coordinator::on_resolve
coordinator_on_resolve(h, c, slot, v) ==
    LET h1 == [h EXCEPT !.coordinators[c].working_area[slot] =
                            [set |-> TRUE, v |-> v],
                        !.coordinators[c].counter = @ - 1]
        co == h1.coordinators[c]
    IN  IF co.counter = 0 /\ is_pending(h1, co.promise)
        THEN resolve(h1, co.promise,
                     [i \in 1..Len(co.working_area) |-> co.working_area[i].v])
        ELSE Ok(h1)

\* on_reject() without the check for a settled all() promise
coordinator_on_reject_unchecked(h, c, e) ==
    reject(h, h.coordinators[c].promise, e)

\* all_coordinator::on_reject, and the reject functor of void_settler
coordinator_on_reject(h, c, e) ==
    LET co == h.coordinators[c]
    IN  IF is_pending(h, co.promise) THEN reject(h, co.promise, e) ELSE Ok(h)

\* The resolve functor of void_settler
void_settler_on_resolve(h, c) ==
    LET h1 == [h EXCEPT !.coordinators[c].counter = @ - 1]
        co == h1.coordinators[c]
    IN  IF co.counter = 0 /\ is_pending(h1, co.promise)
        THEN resolve(h1, co.promise, void_type)
        ELSE Ok(h1)

\* The resolve functor of race() without the check for a settled race
race_on_resolve_unchecked(h, race_promise, v) == resolve(h, race_promise, v)

\* The resolve functor race() attaches to each input
race_on_resolve(h, race_promise, v) ==
    IF is_pending(h, race_promise) THEN resolve(h, race_promise, v) ELSE Ok(h)

\* A reject functor of race() that does not forward the error
race_on_reject_dropped(h, race_promise, e) == Ok(h)

\* The reject functor race() attaches to each input
race_on_reject(h, race_promise, e) ==
    IF is_pending(h, race_promise) THEN reject(h, race_promise, e) ELSE Ok(h)

\* The promise a functor makes and returns: make_pending, which the program
\* keeps to settle it, make_resolved(2) or make_rejected("e2")
returned_promise(h, state) ==
    [h EXCEPT !.promises = Append(@,
        NewPromise(FALSE, state,
                   CASE state = "PENDING" -> empty_type
                     [] state = "RESOLVED" -> value_type(2)
                     [] state = "REJECTED" -> exception_ptr("e2"),
                   state = "PENDING", TRUE))]

\* promise::handle_resolve
handle_resolve(h, p, c) ==
    LET f == c.onres
        v == h.promises[p].value.v
        argument == IF f.op = "settle" /\ h.promises[p].void
                    THEN empty_type ELSE h.promises[p].value
        h1 == Invoke(h, p, "on_resolve", argument)
        h2 == returned_promise(h1, f.x)
    IN  CASE f.op = "value" -> resolve(h1, c.next, v)
          [] f.op = "void" -> resolve(h1, c.next, void_type)
          [] f.op = "throw" -> Throw(h1, f.x)
          [] f.op = "settle" -> resolve(h1, c.next, f.a)
          [] f.op = "promise" -> pipe(h2, Len(h2.promises), c.next)
          [] f.op = "pipe" -> ThenResolveNext(pipe_on_resolve(h1, f.a, v), c.next)
          [] f.op = "race" -> ThenResolveNext(race_on_resolve(h1, f.a, v), c.next)
          [] f.op = "all" ->
                ThenResolveNext(coordinator_on_resolve(h1, f.a, f.b, v), c.next)
          [] f.op = "void_settler" ->
                ThenResolveNext(void_settler_on_resolve(h1, f.a), c.next)

\* handle_reject() that takes every rejection as handled
handle_reject_swallowed(h, p, c) == resolve(h, c.next, void_type)

\* promise::handle_reject
handle_reject(h, p, c) ==
    LET f == c.onrej
        e == h.promises[p].value.e
        h1 == Invoke(h, p, "on_reject", h.promises[p].value)
        h2 == returned_promise(h1, f.x)
    IN  CASE f.op = "rethrow" -> Throw(h1, e)
          [] f.op = "void" -> resolve(h1, c.next, void_type)
          [] f.op \in {"value", "settle"} -> resolve(h1, c.next, f.a)
          [] f.op = "throw" -> Throw(h1, f.x)
          [] f.op = "promise" -> pipe(h2, Len(h2.promises), c.next)
          [] f.op = "pipe" ->
                ThenResolveNext(pipe_on_reject(h1, p, f.a, e), c.next)
          [] f.op = "race" -> ThenResolveNext(race_on_reject(h1, f.a, e), c.next)
          [] f.op \in {"all", "void_settler"} ->
                ThenResolveNext(coordinator_on_reject(h1, f.a, e), c.next)

\* A settle handler without the try/catch around the two handlers
on_settle_uncaught(h, p) ==
    LET c == h.promises[p].on_settle
    IN  IF is_resolved(h, p) THEN handle_resolve(h, p, c)
        ELSE IF is_rejected(h, p) THEN handle_reject(h, p, c)
        ELSE Ok(h)

\* The settle handler then() installs: the try/catch around the two handlers
on_settle(h, p) ==
    LET c == h.promises[p].on_settle
        r == IF is_resolved(h, p) THEN handle_resolve(h, p, c)
             ELSE IF is_rejected(h, p) THEN handle_reject(h, p, c)
             ELSE Ok(h)
    IN  IF r.exc \in {NoExc, Terminate} THEN r ELSE reject(r.h, c.next, r.exc)

\* set_settle_handler() that leaves a settled promise alone
set_settle_handler_deferred(h, p, c) ==
    Ok([h EXCEPT !.promises[p].on_settle = c])

\* set_settle_handler() that keeps the handler a promise has already
set_settle_handler_kept(h, p, c) ==
    LET h1 == IF has_handler(h, p) THEN h
              ELSE [h EXCEPT !.promises[p].on_settle = c]
    IN  IF is_settled(h1, p) THEN NoExcept(on_settle(h1, p)) ELSE Ok(h1)

\* promise_interface::set_settle_handler
set_settle_handler(h, p, c) ==
    LET h1 == [h EXCEPT !.promises[p].on_settle = c]
    IN  IF is_settled(h1, p) THEN NoExcept(on_settle(h1, p)) ELSE Ok(h1)

\* chained_promise_type: the functors after which the next promise is void
resolves_void(onres) == onres.op \notin {"value", "settle", "promise"}

\* make_promise: a new pending promise at the end of the heap
make_promise(h, void, user) ==
    [h EXCEPT !.promises =
        Append(@, NewPromise(void, "PENDING", empty_type, user, FALSE))]

\* promise::then(on_resolve, on_reject); the next promise is the last one
then(h, p, onres, onrej, user) ==
    LET h1 == make_promise(h, resolves_void(onres), user)
        next == Len(h1.promises)
    IN  set_settle_handler(h1, p,
            [next |-> next, onres |-> onres, onrej |-> onrej,
             calls |-> <<>>])

\* The resolve functor of pipe(): next_promise->resolve(std::move(value))
pipe_on_resolve(h, next_promise, v) == resolve(h, next_promise, v)

\* A reject functor of pipe() that does not forward the error
pipe_on_reject_dropped(h, p, next_promise, e) == Ok(h)

\* The reject functor of pipe(): next_promise->reject(std::move(error)),
\* which moves the error out of p once next_promise is known to be pending
pipe_on_reject(h, p, next_promise, e) ==
    IF is_settled(h, next_promise)
    THEN Throw(h, ResettleReject)
    ELSE rejected(SetValue(SetValue(h, p, moved_from),
                           next_promise, exception_ptr(e)), next_promise)

\* promise::pipe
pipe(h, p, next_promise) ==
    LET f == Body("pipe", next_promise, 0, "")
    IN  then(h, p, f, f, FALSE)

\* The promises of h the caller holds that have no settle handler yet
Attachable(h) ==
    {p \in 1..Len(h.promises) : h.promises[p].user /\ ~has_handler(h, p)}

\* The argument lists of all() and race(): n distinct promises
Arguments(h, n) ==
    {s \in [1..n -> Attachable(h)] : \A i, j \in 1..n : i # j => s[i] # s[j]}

\* settled: the inputs that are settled when all() or race() is called
NewCoordinator(h, kind, promise, inputs) ==
    [kind |-> kind, promise |-> promise, inputs |-> inputs,
     settled |-> {i \in 1..Len(inputs) : is_settled(h, inputs[i])},
     counter |-> Len(inputs),
     working_area |-> [i \in 1..Len(inputs) |-> [set |-> FALSE, v |-> 0]]]

\* all_coordinator::attach, the loop of void_settler calls in all() and the
\* fold over the inputs in race(): one then() per input, in argument order
RECURSIVE attach(_, _, _)
attach(h, c, i) ==
    LET co == h.coordinators[c]
        f == Body(co.kind, IF co.kind = "race" THEN co.promise ELSE c, i, "")
        r == then(h, co.inputs[i], f, f, FALSE)
    IN  IF i > Len(co.inputs) THEN Ok(h)
        ELSE IF r.exc # NoExc THEN r
        ELSE attach(r.h, c, i + 1)

\* Composition: the returned promise, its coordinator, then the attachment
compose(h, kind, void, inputs) ==
    LET h1 == make_promise(h, void, TRUE)
        h2 == [h1 EXCEPT !.coordinators =
                  Append(@, NewCoordinator(h, kind, Len(h1.promises), inputs))]
    IN  attach(h2, Len(h2.coordinators), 1)

\* juro::compose::all
all(h, inputs) ==
    LET every_void == \A i \in 1..Len(inputs) : h.promises[inputs[i]].void
    IN  compose(h, IF every_void THEN "void_settler" ELSE "all",
                every_void, inputs)

\* juro::compose::race
race(h, inputs) == compose(h, "race", FALSE, inputs)

(***************************************************************************)
(* Juro: the calls of the program that uses the library.                   *)
(***************************************************************************)
\* The resolve and reject functors the program hands to then(), rescue()
\* then(f) with f returning its argument, then(f) with f throwing, and
\* rescue(g) with g returning void
Handlers ==
    {<<Body("value", 0, 0, ""), Body("rethrow", 0, 0, "")>>,
     <<Body("throw", 0, 0, "e2"), Body("rethrow", 0, 0, "")>>,
     <<Body("value", 0, 0, ""), Body("void", 0, 0, "")>>}

\* The number of promises the program holds
Held == Cardinality({p \in 1..Len(promises) : promises[p].user})

\* std::terminate has not been called
Running == exc # Terminate

\* A call returns: the heap it leaves and the exception that left it
Called(r) ==
    /\ promises' = r.h.promises
    /\ coordinators' = r.h.coordinators
    /\ order' = r.h.order
    /\ exc' = r.exc
    /\ UNCHANGED <<fugaxVars, fussVars>>

Factory(void, state, value) ==
    /\ Running
    /\ Held < MaxPromises
    /\ promises' = Append(promises, NewPromise(void, state, value, TRUE, TRUE))
    /\ order' = IF state = "PENDING" THEN order
                ELSE Append(order, Len(promises) + 1)
    /\ exc' = NoExc
    /\ UNCHANGED <<coordinators, fugaxVars, fussVars>>

\* juro::make_pending
MakePending == \E void \in BOOLEAN : Factory(void, "PENDING", empty_type)

\* juro::make_resolved
MakeResolved ==
    \E v \in {1, void_type} :
        Factory(v = void_type, "RESOLVED", value_type(v))

\* juro::make_rejected
MakeRejected == Factory(FALSE, "REJECTED", exception_ptr("e1"))

\* The promises the program settles: the ones it made, and, once settled,
\* the ones the library returned to it
Settleable(p) ==
    promises[p].user /\ ~(~promises[p].root /\ promises[p].state = "PENDING")

\* The values the program resolves and rejects p with (one value is enough
\* for a promise that is settled already)
ResolveArguments(p) ==
    IF promises[p].void THEN {void_type}
    ELSE IF promises[p].state # "PENDING" THEN {1} ELSE Values

RejectArguments(p) ==
    IF promises[p].state # "PENDING" THEN {"e1"} ELSE Errors

\* The program calls p->resolve(v)
ResolveCall(p, v) ==
    /\ Running
    /\ Settleable(p)
    /\ v \in ResolveArguments(p)
    /\ Called(resolve(Heap, p, v))

\* The program calls p->reject(e)
RejectCall(p, e) ==
    /\ Running
    /\ Settleable(p)
    /\ e \in RejectArguments(p)
    /\ Called(reject(Heap, p, e))

Resolve == \E p \in 1..Len(promises) : \E v \in Values \cup {void_type} :
    ResolveCall(p, v)

Reject == \E p \in 1..Len(promises) : \E e \in Errors : RejectCall(p, e)

Then ==
    /\ Running
    /\ Held < MaxPromises
    /\ \E p \in Attachable(Heap) : \E fg \in Handlers :
            Called(then(Heap, p, fg[1], fg[2], TRUE))

All ==
    /\ Running
    /\ \E n \in 2..MaxArity :
         /\ Held < MaxPromises
         /\ \E inputs \in Arguments(Heap, n) :
               Called(all(Heap, inputs))

Race ==
    /\ Running
    /\ \E n \in 2..MaxArity :
         /\ Held < MaxPromises
         /\ \E inputs \in Arguments(Heap, n) :
               Called(race(Heap, inputs))

\* The states of the promise a functor returns
ReturnedStates == {"PENDING", "RESOLVED", "REJECTED"}

\* The program calls p->then(f) with f returning a promise it makes
ThenPromiseCall(p, state) ==
    /\ Running
    /\ Held < MaxPromises
    /\ p \in Attachable(Heap)
    /\ Called(then(Heap, p, Body("promise", 0, 0, state),
                   Body("rethrow", 0, 0, ""), TRUE))

ThenPromise ==
    \E p \in 1..Len(promises) : \E state \in ReturnedStates :
        ThenPromiseCall(p, state)

\* The program calls p->then(f, g) with g throwing "e2"
ThenThrowingCall(p) ==
    /\ Running
    /\ Held < MaxPromises
    /\ p \in Attachable(Heap)
    /\ Called(then(Heap, p, Body("value", 0, 0, ""),
                   Body("throw", 0, 0, "e2"), TRUE))

ThenThrowing == \E p \in 1..Len(promises) : ThenThrowingCall(p)

\* finally() that hands on_settle to then() as the resolve functor only
finally_on_resolve_only(h, p, user) ==
    then(h, p, Body("settle", 2, 0, ""), Body("rethrow", 0, 0, ""), user)

\* promise::finally with on_settle returning 2
finally(h, p, user) ==
    LET on_settle_functor == Body("settle", 2, 0, "")
    IN  then(h, p, on_settle_functor, on_settle_functor, user)

\* The program calls p->finally(on_settle)
FinallyCall(p) ==
    /\ Running
    /\ Held < MaxPromises
    /\ p \in Attachable(Heap)
    /\ Called(finally(Heap, p, TRUE))

Finally == \E p \in 1..Len(promises) : FinallyCall(p)

\* The pending promises the caller holds that have a settle handler
Replaceable(h) ==
    {p \in 1..Len(h.promises) :
        h.promises[p].user /\ has_handler(h, p) /\ is_pending(h, p)}

\* The program calls then(), rescue() or finally() on a pending promise
\* that has a settle handler, and drops the promise the call returns
ThenAgain ==
    /\ Running
    /\ Len(promises) < MaxHeap
    /\ \E p \in Replaceable(Heap) : \E fg \in Handlers :
            Called(then(Heap, p, fg[1], fg[2], FALSE))

\* The program that attaches handlers to promises that have one
ReplaceNext ==
    \/ MakePending
    \/ Resolve
    \/ Reject
    \/ Then
    \/ Race
    \/ ThenAgain

JuroInit ==
    /\ promises = <<>>
    /\ coordinators = <<>>
    /\ order = <<>>
    /\ exc = NoExc

JuroNext ==
    \/ MakePending
    \/ MakeResolved
    \/ MakeRejected
    \/ Resolve
    \/ Reject
    \/ Then
    \/ All
    \/ Race

\* The program that chains promises with every kind of functor
ChainNext ==
    \/ MakePending
    \/ MakeResolved
    \/ MakeRejected
    \/ Resolve
    \/ Reject
    \/ Then
    \/ ThenPromise
    \/ ThenThrowing
    \/ Finally

(***************************************************************************)
(* Juro: properties.                                                       *)
(***************************************************************************)
Promises == 1..Len(promises)
Coordinators(kinds) ==
    {c \in 1..Len(coordinators) : coordinators[c].kind \in kinds}
Inputs(c) == {coordinators[c].inputs[i] : i \in 1..Len(coordinators[c].inputs)}

\* The place of a settled promise in the order of settlement
Position(p) == CHOOSE k \in 1..Len(order) : order[k] = p
\* The promise of S that settled first
First(S) == CHOOSE p \in S : \A q \in S : Position(p) <= Position(q)

Unchanged(p) ==
    /\ promises'[p].state = promises[p].state
    /\ promises'[p].value = promises[p].value

\* An input of c that was pending is settled by this step
SettlesInputOf(c) ==
    \E p \in Inputs(c) : is_pending(Heap, p) /\ promises'[p].state # "PENDING"

\* C1: once a promise is resolved or rejected, no step changes its state or
\* its value or error, and every resolve() or reject() called on it throws
\* the promise_error of an already settled promise.
SettlementIsTerminal ==
    [][\A p \in Promises : promises[p].state # "PENDING" =>
          /\ Unchanged(p)
          /\ \A v \in ResolveArguments(p) :
                exc' = ResettleResolve \/ ~ResolveCall(p, v)
          /\ \A e \in RejectArguments(p) :
                exc' = ResettleReject \/ ~RejectCall(p, e)
      ]_juroVars

\* A resolve() on a settled promise has thrown
ResettleAttempted ==
    /\ exc = ResettleResolve
    /\ \E p \in Promises : promises[p].root /\ is_rejected(Heap, p)

\* C4: reject(e) on a pending promise without a settle handler throws
\* "Unhandled promise rejection" and leaves the promise rejected with e.
UnhandledRejectionThrows ==
    [][\A p \in Promises : \A e \in Errors :
          (is_pending(Heap, p) /\ ~has_handler(Heap, p) /\ RejectCall(p, e)) =>
              /\ exc' = Unhandled
              /\ promises'[p].state = "REJECTED"
              /\ promises'[p].value = exception_ptr(e)
      ]_juroVars

\* A pending promise made by make_pending was rejected with no handler
UnhandledRejectionThrown ==
    /\ exc = Unhandled
    /\ order # <<>>
    /\ LET p == order[Len(order)]
       IN  promises[p].root /\ is_rejected(Heap, p) /\ ~has_handler(Heap, p)

\* The tuple of the values of the inputs of c, in argument order
InputValues(c) ==
    [i \in 1..Len(coordinators[c].inputs) |->
        promises[coordinators[c].inputs[i]].value.v]

AllStaysPending(c) ==
    ((\E p \in Inputs(c) : is_pending(Heap, p))
        /\ ~(\E p \in Inputs(c) : is_rejected(Heap, p)))
    => is_pending(Heap, coordinators[c].promise)

AllResolved(c) == \A p \in Inputs(c) : is_resolved(Heap, p)

\* The promise of c is a promise of a tuple, resolved with the inputs' values
HoldsTuple(c) ==
    LET q == coordinators[c].promise
    IN  /\ is_resolved(Heap, q)
        /\ ~promises[q].void
        /\ promises[q].value.v = InputValues(c)

\* The promise of c is a void promise, resolved
HoldsVoid(c) ==
    LET q == coordinators[c].promise
    IN  /\ is_resolved(Heap, q)
        /\ promises[q].void
        /\ promises[q].value = value_type(void_type)

\* C8 as stated: the promise of all() is pending while an input is pending
\* and none is rejected, and once every input is resolved it is resolved
\* with the tuple of their values in argument order.
AllResolvesWithTuple ==
    Running => \A c \in Coordinators({"all", "void_settler"}) :
        /\ AllStaysPending(c)
        /\ AllResolved(c) => HoldsTuple(c)

\* C8 as amended: as above, except that all() of void promises only returns
\* a void promise, which is resolved with no tuple.
AllResolvesWithTupleOrVoid ==
    Running => \A c \in Coordinators({"all", "void_settler"}) :
        /\ AllStaysPending(c)
        /\ AllResolved(c) =>
              IF \A p \in Inputs(c) : promises[p].void
              THEN HoldsVoid(c)
              ELSE HoldsTuple(c)

\* all(a, b) was resolved with <<1, 2>> after b resolved before a
AllResolvedOutOfOrder ==
    \E c \in Coordinators({"all"}) :
        /\ Running
        /\ Len(coordinators[c].inputs) = 2
        /\ coordinators[c].settled = {}
        /\ HoldsTuple(c)
        /\ InputValues(c) = <<1, 2>>
        /\ Position(coordinators[c].inputs[2]) < Position(coordinators[c].inputs[1])

\* The inputs of c that are rejected
Rejected(c) == {p \in Inputs(c) : is_rejected(Heap, p)}

\* C9: the promise of all() is rejected with the error of the first input
\* that was rejected; once it is rejected, a step that settles another input
\* leaves it as it is and throws nothing.
AllRejectsWithFirstError ==
    /\ [](Running => \A c \in Coordinators({"all", "void_settler"}) :
            Rejected(c) # {} =>
                /\ is_rejected(Heap, coordinators[c].promise)
                /\ promises[coordinators[c].promise].value =
                       promises[First(Rejected(c))].value)
    /\ [][\A c \in Coordinators({"all", "void_settler"}) :
            (is_rejected(Heap, coordinators[c].promise) /\ SettlesInputOf(c)) =>
                Unchanged(coordinators[c].promise) /\ exc' = NoExc
        ]_juroVars

\* Two inputs of an all() were rejected with different errors, and the
\* second rejection has just returned
AllRejectedTwice ==
    \E c \in Coordinators({"all", "void_settler"}) : \E p, q \in Rejected(c) :
        /\ exc = NoExc
        /\ promises[p].value # promises[q].value
        /\ order[Len(order)] = q
        /\ q # First(Rejected(c))
        /\ coordinators[c].settled = {}

\* The inputs of c that are settled
Settled(c) == {p \in Inputs(c) : is_settled(Heap, p)}

SettledLike(q, p) ==
    promises[q].state = promises[p].state /\ promises[q].value = promises[p].value

RaceIgnoresLaterSettlements ==
    [][\A c \in Coordinators({"race"}) :
          (is_settled(Heap, coordinators[c].promise) /\ SettlesInputOf(c)) =>
              Unchanged(coordinators[c].promise) /\ exc' = NoExc
      ]_juroVars

\* C10 as stated: the promise of race() is settled like the input that
\* settled first; once it is settled, a step that settles another input
\* leaves it as it is and throws nothing.
RaceSettlesWithFirst ==
    /\ [](Running => \A c \in Coordinators({"race"}) :
            Settled(c) # {} =>
                SettledLike(coordinators[c].promise, First(Settled(c))))
    /\ RaceIgnoresLaterSettlements

\* The input the race settles with: of the inputs that are settled when
\* race() is called, the first argument; else the first input to settle
Winner(c) ==
    LET co == coordinators[c]
    IN  IF co.settled # {}
        THEN co.inputs[CHOOSE i \in co.settled : \A j \in co.settled : i <= j]
        ELSE First(Settled(c))

\* C10 as amended: the promise of race() is settled like the first input to
\* settle after the call of race(), or, when inputs are settled already at
\* the call, like the first of these in argument order; later settlements
\* leave it as it is and throw nothing.
RaceSettlesWithWinner ==
    /\ [](Running => \A c \in Coordinators({"race"}) :
            Settled(c) # {} => SettledLike(coordinators[c].promise, Winner(c)))
    /\ RaceIgnoresLaterSettlements

\* A race was won by a resolved input and another input was rejected later
RaceSettledTwice ==
    \E c \in Coordinators({"race"}) : \E p, q \in Settled(c) :
        /\ exc = NoExc
        /\ coordinators[c].settled = {}
        /\ p = First(Settled(c))
        /\ is_resolved(Heap, p) /\ is_rejected(Heap, q)
        /\ order[Len(order)] = q
        /\ SettledLike(coordinators[c].promise, p)

\* The promises a functor returned, which pipe() attached to, and the next
\* promise each is piped into
Piped == {r \in Promises : promises[r].on_settle.onres.op = "pipe"}
Target(r) == promises[r].on_settle.onres.a

\* C11: the next promise of a functor that returned the promise r has the
\* state of r after every step (pending while r is pending, settled in the
\* step that settles r or that returns r settled), and it holds the value r
\* holds, or the error r was rejected with.
PipeSettlesIdentically ==
    [][\A r \in Piped' :
          LET next == Target(r)'
          IN  /\ promises'[next].state = promises'[r].state
              /\ promises'[r].state = "RESOLVED" =>
                     promises'[next].value = promises'[r].value
              /\ promises'[r].state = "REJECTED" =>
                     IF r \notin Promises
                     THEN promises'[next].value = exception_ptr("e2")
                     ELSE IF promises[r].state = "PENDING"
                     THEN \E e \in Errors :
                            /\ promises'[next].value = exception_ptr(e)
                            /\ RejectCall(r, e)
                     ELSE promises'[next].value = promises[next].value]_vars

\* A functor returned a pending promise, which was rejected later
PipedRejectedLater ==
    \E r \in Piped :
        /\ promises[r].user
        /\ promises[r].state = "REJECTED"
        /\ promises[Target(r)].state = "REJECTED"
        /\ promises[Target(r)].value.e \in Errors

\* The functors the closure of p has invoked
Calls(p) == promises[p].on_settle.calls
Called_functor(p, k) ==
    IF Calls(p)[k].functor = "on_resolve"
    THEN promises[p].on_settle.onres ELSE promises[p].on_settle.onrej
Next_promise(p) == promises[p].on_settle.next

\* C12: when the functor then() invoked (on_resolve or on_reject) threw x,
\* the next promise is rejected and holds x.
ThrownRejectsNext ==
    \A p \in Promises : \A k \in 1..Len(Calls(p)) :
        Called_functor(p, k).op = "throw" =>
            /\ promises[Next_promise(p)].state = "REJECTED"
            /\ promises[Next_promise(p)].value =
                   exception_ptr(Called_functor(p, k).x)

\* An on_reject functor threw when its promise was rejected, and the next
\* promise ran the handler it had
FunctorThrew ==
    \E p \in Promises :
        /\ Calls(p) # <<>>
        /\ Calls(p)[1].functor = "on_reject"
        /\ Called_functor(p, 1).op = "throw"
        /\ promises[p].value # exception_ptr(Called_functor(p, 1).x)
        /\ Calls(Next_promise(p)) # <<>>

\* The promises then(on_resolve) was called on: the reject functor rethrows
ResolveHandlerOnly ==
    {p \in Promises : promises[p].on_settle.onrej.op = "rethrow"}

\* C13: a rejected promise with a handler from then(on_resolve) has not
\* invoked on_resolve, and its next promise is rejected with the same error.
RejectionSkipsOnResolve ==
    \A p \in ResolveHandlerOnly :
        promises[p].state = "REJECTED" =>
            /\ \A k \in 1..Len(Calls(p)) : Calls(p)[k].functor # "on_resolve"
            /\ promises[Next_promise(p)].state = "REJECTED"
            /\ promises[Next_promise(p)].value = promises[p].value

\* p->reject(e) was called after then(on_resolve), and nothing handles the
\* rejection of the next promise
RejectedPastOnResolve ==
    /\ exc = Unhandled
    /\ \E p \in ResolveHandlerOnly :
          /\ promises[p].state = "REJECTED"
          /\ promises[p].on_settle.onres.op = "value"
          /\ promises[Next_promise(p)].state = "REJECTED"

\* The promise the reject functor of p forwards a rejection to: the next
\* promise of then(on_resolve), the promise of race() or of all()
Downstream(p) ==
    LET g == promises[p].on_settle.onrej
    IN  CASE g.op = "rethrow" -> {Next_promise(p)}
          [] g.op = "race" -> {g.a}
          [] g.op \in {"all", "void_settler"} -> {coordinators[g.a].promise}
          [] OTHER -> {}

\* q is rejected by this step, and not by make_rejected
RejectedByStep(q) ==
    /\ promises'[q].state = "REJECTED"
    /\ IF q \in Promises THEN promises[q].state = "PENDING"
       ELSE ~promises'[q].root

\* C14: p->reject(e) on a pending p whose rejection is forwarded to a pending
\* q without a settle handler leaves q rejected with e and throws "Unhandled
\* promise rejection"; and every step that rejects a promise without a
\* settle handler ends in that error or in std::terminate.
ForwardedRejectionThrows ==
    [][/\ \A p \in Promises : \A q \in Downstream(p) : \A e \in Errors :
            (/\ is_pending(Heap, p)
             /\ is_pending(Heap, q)
             /\ ~has_handler(Heap, q)
             /\ RejectCall(p, e)) =>
                /\ exc' = Unhandled
                /\ promises'[q].state = "REJECTED"
                /\ promises'[q].value = exception_ptr(e)
       /\ \A q \in 1..Len(promises') :
            (RejectedByStep(q) /\ promises'[q].on_settle.next = 0) =>
                exc' \in {Unhandled, Terminate}
      ]_juroVars

\* The rejection of an input that was pending when race() or all() was
\* called reached the composed promise, which has no settle handler
ForwardedRejectionThrown ==
    /\ exc = Unhandled
    /\ \E c \in Coordinators({"race", "all"}) :
          LET q == coordinators[c].promise
          IN  /\ order[Len(order)] = q
              /\ is_rejected(Heap, q)
              /\ ~has_handler(Heap, q)
              /\ \E i \in 1..Len(coordinators[c].inputs) :
                    /\ i \notin coordinators[c].settled
                    /\ promises[coordinators[c].inputs[i]].value =
                           promises[q].value

\* The rejected promises without a settle handler
RejectedUnattached ==
    {p \in Promises : is_rejected(Heap, p) /\ ~has_handler(Heap, p)}

\* C15: make_rejected(e) throws nothing and makes a promise rejected with e;
\* a rejected promise keeps its state and error while it has no handler; the
\* call that attaches a handler to it invokes the reject functor, once, with
\* the error.
MakeRejectedDefersHandling ==
    [][/\ MakeRejected =>
            /\ exc' = NoExc
            /\ promises'[Len(promises')].state = "REJECTED"
            /\ promises'[Len(promises')].value = exception_ptr("e1")
       /\ \A p \in RejectedUnattached :
            IF promises'[p].on_settle.next = 0
            THEN Unchanged(p)
            ELSE promises'[p].on_settle.calls =
                    <<[functor |-> "on_reject", argument |-> promises[p].value]>>
      ]_juroVars

\* A handler was attached to a promise made by make_rejected, by rescue() or
\* by finally(), and the call returned
RejectedHandledLater ==
    /\ exc = NoExc
    /\ \E p \in Promises :
          /\ promises[p].root
          /\ promises[p].value = exception_ptr("e1")
          /\ promises[p].on_settle.onrej.op \in {"void", "settle"}
          /\ Calls(p) # <<>>
          /\ is_resolved(Heap, Next_promise(p))

\* The promises finally() was called on
WithSettleHandler ==
    {p \in Promises : promises[p].on_settle.onres.op = "settle"}

\* What on_settle is invoked with once p is settled: the value (nothing for
\* a void promise) or the error
SettleArgument(p) ==
    IF is_resolved(Heap, p)
    THEN [functor |-> "on_resolve",
          argument |-> IF promises[p].void THEN empty_type
                       ELSE promises[p].value]
    ELSE [functor |-> "on_reject", argument |-> promises[p].value]

\* C16: a promise finally(on_settle) was called on has invoked on_settle
\* once it is settled and not before, exactly once, with its value or its
\* error, and then the next promise is resolved with what on_settle returned;
\* rejecting the promise does not throw "Unhandled promise rejection", and
\* throws nothing when the next promise has no handler.
FinallyInvokesOnce ==
    /\ [](\A p \in WithSettleHandler :
            IF is_pending(Heap, p)
            THEN Calls(p) = <<>> /\ is_pending(Heap, Next_promise(p))
            ELSE /\ Calls(p) = <<SettleArgument(p)>>
                 /\ is_resolved(Heap, Next_promise(p))
                 /\ promises[Next_promise(p)].value =
                        value_type(promises[p].on_settle.onres.a))
    /\ [][\A p \in WithSettleHandler : \A e \in Errors :
            (is_pending(Heap, p) /\ RejectCall(p, e)) =>
                /\ exc' # Unhandled
                /\ ~has_handler(Heap, Next_promise(p)) => exc' = NoExc
         ]_juroVars

\* p->reject("e2") was called after p->finally(on_settle)
FinallyAfterRejection ==
    /\ exc = NoExc
    /\ \E p \in WithSettleHandler :
          /\ promises[p].value = exception_ptr("e2")
          /\ Calls(p) = <<SettleArgument(p)>>
          /\ is_resolved(Heap, Next_promise(p))

\* The promise has a settle handler after the step
Handled(p) == promises'[p].on_settle.next # 0

\* C35: the settle handler of a pending promise has not been invoked, and
\* the one of a settled promise has been invoked once. The call that
\* attaches a handler to a pending promise leaves the promise pending and
\* the handler not invoked; the call that settles the promise returns with
\* the handler invoked, with on_resolve when it resolved the promise and
\* with on_reject when it rejected it; the call that attaches a handler to
\* a settled promise returns with the handler invoked; and a handler that
\* was invoked is not invoked again.
SettleHandlerRunsAtSettlement ==
    /\ [](\A p \in Promises :
             has_handler(Heap, p) =>
                 IF is_pending(Heap, p)
                 THEN Calls(p) = <<>>
                 ELSE Len(Calls(p)) = 1)
    /\ [][\A p \in Promises :
             /\ (~has_handler(Heap, p) /\ Handled(p) /\ is_pending(Heap, p))
                   => /\ promises'[p].state = "PENDING"
                      /\ promises'[p].on_settle.calls = <<>>
             /\ (has_handler(Heap, p) /\ is_pending(Heap, p)
                                      /\ promises'[p].state # "PENDING")
                   => /\ Len(promises'[p].on_settle.calls) = 1
                      /\ promises'[p].on_settle.calls[1].functor =
                            IF promises'[p].state = "RESOLVED"
                            THEN "on_resolve" ELSE "on_reject"
             /\ (~has_handler(Heap, p) /\ Handled(p) /\ is_settled(Heap, p))
                   => Len(promises'[p].on_settle.calls) = 1
             /\ Calls(p) # <<>> => promises'[p].on_settle.calls = Calls(p)
         ]_vars

\* The program attached a handler to a pending promise, made a settled
\* promise after that and settled the first one then: the handler was
\* invoked once
HandlerRanAtSettlement ==
    \E p, s \in Promises :
        /\ has_handler(Heap, p)
        /\ promises[p].user
        /\ promises[p].root
        /\ Next_promise(p) < s
        /\ promises[s].user
        /\ promises[s].root
        /\ is_settled(Heap, s)
        /\ is_settled(Heap, p)
        /\ Position(s) < Position(p)
        /\ Len(Calls(p)) = 1

\* The promises then() made whose closure is gone: no settle handler has
\* them as its next promise
Orphaned ==
    {q \in Promises :
        /\ ~promises[q].root
        /\ \A p \in Promises : promises[p].on_settle.next # q
        /\ \A c \in 1..Len(coordinators) : coordinators[c].promise # q}

\* The step puts another closure in the place of the settle handler of p
Replaces(p) ==
    /\ has_handler(Heap, p)
    /\ promises'[p].on_settle.next # promises[p].on_settle.next

\* The inputs of race() whose settle handler is not the one race() attached
Unraced(c) ==
    {p \in Inputs(c) : promises[p].on_settle.onres.op # "race"}

\* C38: a promise has one settle handler. then() on a promise that has one
\* puts its closure in the place of the old one, whatever attached that:
\* the promise stays pending, the old closure has not been invoked, and its
\* next promise is pending and is the next promise of nothing. Such a
\* promise is pending and is never settled; and when an input of race() whose
\* handler was replaced is settled, the promise of race() stays as it is.
\* Every promise then() makes is the next promise of the closure it
\* attached.
SecondHandlerReplacesFirst ==
    /\ [](\A q \in Orphaned : is_pending(Heap, q))
    /\ [][/\ \A p \in Promises :
                Replaces(p) =>
                    /\ is_pending(Heap, p)
                    /\ promises'[p].state = "PENDING"
                    /\ Calls(p) = <<>>
                    /\ promises'[p].on_settle.calls = <<>>
                    /\ promises'[p].on_settle.next > Len(promises)
                    /\ promises'[Next_promise(p)] = promises[Next_promise(p)]
                    /\ is_pending(Heap, Next_promise(p))
                    /\ \A r \in Promises :
                          promises'[r].on_settle.next # Next_promise(p)
          /\ \A q \in Orphaned : /\ promises'[q].state = "PENDING"
                                  /\ promises'[q].value = promises[q].value
          /\ \A c \in Coordinators({"race"}) : \A p \in Unraced(c) :
                (is_pending(Heap, p) /\ promises'[p].state # "PENDING") =>
                    promises'[coordinators[c].promise] =
                        promises[coordinators[c].promise]
          /\ \A r \in (Len(promises) + 1)..MaxHeap :
                (r <= Len(promises') /\ ~promises'[r].root) =>
                    \/ \E p \in Promises : promises'[p].on_settle.next = r
                    \/ \E c \in 1..MaxHeap :
                          /\ c <= Len(coordinators')
                          /\ coordinators'[c].promise = r
         ]_vars

\* The program holds the promise of a then() whose closure was replaced:
\* the promise it was attached to is settled, and the next promise of the
\* closure that took its place with it, while this one is pending
FirstHandlerNeverRan ==
    \E p \in Promises : \E q \in Orphaned :
        /\ promises[q].user
        /\ promises[p].root
        /\ p < q
        /\ q < Next_promise(p)
        /\ is_settled(Heap, p)
        /\ is_settled(Heap, Next_promise(p))
        /\ Len(Calls(p)) = 1
        /\ is_pending(Heap, q)

(***************************************************************************)
(* Fugax: events and the timer map.                                        *)
(***************************************************************************)
\* fugax::schedule_policy
schedule_policy ==
    {"immediate", "delayed", "recurring_immediate", "recurring_delayed",
     "always"}

\* fugax::event::event. Beside the fields of the class an event records
\* whether the loop still owns it (its listeners lock), and its history:
\* whether it has fired, the now of the process() call that fired it last,
\* whether reschedule() was called on it since, and, until it fires, the
\* time schedule() was called at. Its handler is a functor of the program,
\* or one of the lambdas wait(), debounce() and throttle() schedule, with
\* the promise or the arguments it captured.
event(recurring, interval, due_time) ==
    [interval |-> interval, recurring |-> recurring, due_time |-> due_time,
     cancelled |-> FALSE, alive |-> TRUE, fired |-> FALSE, fire_time |-> 0,
     rescheduled |-> FALSE, call_time |-> 0, handler |-> "functor",
     args |-> 0]

\* An event the loop has let go of: its listeners are expired
destroyed == [event(FALSE, 0, 0) EXCEPT !.alive = FALSE]

\* fugax::event::cancel
event_cancel(evs, e) == [evs EXCEPT ![e].cancelled = TRUE]

\* fugax::event::reschedule
event_reschedule(evs, e, time_point) ==
    [evs EXCEPT ![e].due_time = time_point, ![e].rescheduled = TRUE]

\* event_loop::timer_map is a std::map: its slots, in ascending key order
timer_map == <<>>

\* timers[slot].emplace_back(e), and target.splice(target.end(), queue, e)
\* with target = timers[slot]: operator[] makes the slot when it is missing
emplace_back(map, slot, e) ==
    IF \E i \in 1..Len(map) : map[i].time_point = slot
    THEN [i \in 1..Len(map) |->
             IF map[i].time_point = slot
             THEN [map[i] EXCEPT !.events = Append(@, e)]
             ELSE map[i]]
    ELSE SelectSeq(map, LAMBDA s : s.time_point < slot)
         \o <<[time_point |-> slot, events |-> <<e>>]>>
         \o SelectSeq(map, LAMBDA s : s.time_point > slot)

\* queue.erase(position), the half of a splice that leaves the queue
erase(list, position) ==
    SubSeq(list, 1, position - 1) \o SubSeq(list, position + 1, Len(list))

\* A get_due_timers that leaves the slot of the time point itself
\* for the next call
RECURSIVE get_due_timers_before(_, _, _)
get_due_timers_before(map, due, time) ==
    IF map = <<>> \/ Head(map).time_point >= time
    THEN [queue |-> due, timers |-> map]
    ELSE get_due_timers_before(Tail(map), due \o Head(map).events, time)

\* A get_due_timers that puts the events of a later slot first
RECURSIVE get_due_timers_reversed(_, _, _)
get_due_timers_reversed(map, due, time) ==
    IF map = <<>> \/ Head(map).time_point > time
    THEN [queue |-> due, timers |-> map]
    ELSE LET rest == get_due_timers_reversed(Tail(map),
                                             Head(map).events \o due, time)
         IN  IF Head(map).time_point # time
             THEN rest
             ELSE [rest EXCEPT
                      !.timers = <<[Head(map) EXCEPT !.events = <<>>]>> \o @]

\* event_loop::get_due_timers, from the entry the iterator is at: map holds
\* the entries from there on, due the queue gathered so far
RECURSIVE get_due_timers(_, _, _)
get_due_timers(map, due, time) ==
    IF map = <<>> \/ Head(map).time_point > time
    THEN [queue |-> due, timers |-> map]
    ELSE LET rest == get_due_timers(Tail(map), due \o Head(map).events, time)
         IN  IF Head(map).time_point # time
             THEN rest
             ELSE [rest EXCEPT
                      !.timers = <<[Head(map) EXCEPT !.events = <<>>]>> \o @]

\* The lambda of an event loop that made no debouncer and no throttler
no_adapter ==
    [delay |-> 0, armed |-> TRUE, invoked |-> <<>>, called |-> FALSE,
     call_counter |-> 0, call_args |-> 0]

\* fugax::timeout, the value wait() resolves its promise with
fugax_timeout == 3

\* A call of the loop returns: the heap it leaves and the exception that
\* left it
Settles(r) ==
    /\ promises' = r.h.promises
    /\ coordinators' = r.h.coordinators
    /\ order' = r.h.order
    /\ exc' = r.exc

\* A lambda of throttle() that leaves the throttler as it is
fire_disarmed(e) ==
    CASE events[e].handler = "promise->resolve()" ->
             /\ Settles(resolve(Heap, events[e].args, fugax_timeout))
             /\ adapter' = adapter
      [] events[e].handler = "debounced" ->
             /\ adapter' = [adapter EXCEPT
                                !.invoked = Append(@, events[e].args),
                                !.called = FALSE]
             /\ UNCHANGED juroVars
      [] OTHER -> UNCHANGED <<adapter, juroVars>>

\* A lambda of wait() that leaves its promise pending
fire_unresolved(e) ==
    CASE events[e].handler = "debounced" ->
             /\ adapter' = [adapter EXCEPT
                                !.invoked = Append(@, events[e].args),
                                !.called = FALSE]
             /\ UNCHANGED juroVars
      [] events[e].handler = "armed = true" ->
             /\ adapter' = [adapter EXCEPT !.armed = TRUE]
             /\ UNCHANGED juroVars
      [] OTHER -> UNCHANGED <<adapter, juroVars>>

\* event::fire: handler(*this). The functor of the program is entered, the
\* lambda of wait() resolves its promise, the lambda of debounce() applies
\* the functor to the arguments it captured, the lambda of throttle() arms
\* the throttler
fire(e) ==
    CASE events[e].handler = "promise->resolve()" ->
             /\ Settles(resolve(Heap, events[e].args, fugax_timeout))
             /\ adapter' = adapter
      [] events[e].handler = "debounced" ->
             /\ adapter' = [adapter EXCEPT
                                !.invoked = Append(@, events[e].args),
                                !.called = FALSE]
             /\ UNCHANGED juroVars
      [] events[e].handler = "armed = true" ->
             /\ adapter' = [adapter EXCEPT !.armed = TRUE]
             /\ UNCHANGED juroVars
      [] OTHER -> UNCHANGED <<adapter, juroVars>>

\* The slot and the recurring flag event_loop::schedule computes for a policy
schedule_slot(delay, policy) ==
    IF policy \in {"delayed", "recurring_delayed"}
    THEN counter + delay
    ELSE counter

schedule_recurring(policy) ==
    policy \in {"recurring_immediate", "recurring_delayed", "always"}

\* A re-insertion at the slot of the tick itself
recurring_slot_same(time, e) == time

\* A re-insertion at one interval after the time the event was due
recurring_slot_from_due(time, e) == events[e].due_time + events[e].interval

\* The slot process() re-inserts a recurring event at after it fired
recurring_slot(time, e) == time + events[e].interval

\* release() that leaves the event alone
release_forgotten(evs, listener) == evs

\* event_guard::release: cancels the event if the listener still locks
release(evs, listener) ==
    IF listener # 0 /\ evs[listener].alive
    THEN event_cancel(evs, listener)
    ELSE evs

(***************************************************************************)
(* Fugax: the calls of the program and the steps of process().             *)
(***************************************************************************)
\* The names of the event guards the program keeps
Guards == {"guard"}

\* The program calls the loop between two process() calls, and from the
\* handler process() is running. Handlers return normally, and the time
\* points stay far below the range of time_type
Callable == pc \in {"idle", "fire"}

\* The time of a call of the program: the now of the process() call whose
\* handler makes it, or of the last process() call that returned
CallTime == IF pc = "fire" THEN now ELSE counter

\* schedule() that puts an event scheduled by a handler at the end of the
\* queue of the process() call in progress
schedule_queued(delay, policy) ==
    /\ Callable
    /\ Len(events) < MaxEvents
    /\ events' = Append(events,
                        [event(schedule_recurring(policy), delay,
                               schedule_slot(delay, policy))
                            EXCEPT !.call_time = CallTime])
    /\ IF pc = "fire"
       THEN /\ queue' = Append(queue, Len(events) + 1)
            /\ timers' = timers
       ELSE /\ timers' = emplace_back(timers, schedule_slot(delay, policy),
                                      Len(events) + 1)
            /\ queue' = queue
    /\ UNCHANGED <<counter, guards, pc, now, entry>>
    /\ UNCHANGED <<juroVars, fussVars, adapter, mutex>>

\* event_loop::schedule(delay, policy, functor); the overloads and always()
\* are calls of it
schedule(delay, policy) ==
    /\ Callable
    /\ Len(events) < MaxEvents
    /\ events' = Append(events,
                        [event(schedule_recurring(policy), delay,
                               schedule_slot(delay, policy))
                            EXCEPT !.call_time = CallTime])
    /\ timers' = emplace_back(timers, schedule_slot(delay, policy),
                              Len(events) + 1)
    /\ UNCHANGED <<counter, guards, pc, now, queue, entry>>
    /\ UNCHANGED <<juroVars, fussVars, adapter, mutex>>

\* schedule(f) passes no delay; the other policies take one
Delays(policy) == IF policy = "immediate" THEN {0} ELSE 0..MaxDelay

Schedule ==
    \E policy \in schedule_policy : \E delay \in Delays(policy) :
        schedule(delay, policy)

\* schedule(delay, policy, f) with a policy that is said to ignore the delay
ScheduleUndelayed ==
    \E policy \in {"immediate", "always"} : \E delay \in 0..MaxDelay :
        schedule(delay, policy)

\* listener.lock()->cancel(), or cancel() on the event a handler receives
Cancel ==
    \E e \in 1..Len(events) :
        /\ Callable
        /\ events[e].alive
        /\ events' = event_cancel(events, e)
        /\ UNCHANGED <<timers, counter, guards, pc, now, queue, entry>>
        /\ UNCHANGED <<juroVars, fussVars, adapter, mutex>>

\* listener.lock()->reschedule(counter + delay), as a debouncer with the
\* longest delay calls it
Reschedule ==
    \E e \in 1..Len(events) : \E time_point \in {counter + MaxDelay} :
        /\ Callable
        /\ events[e].alive
        /\ events' = event_reschedule(events, e, time_point)
        /\ UNCHANGED <<timers, counter, guards, pc, now, queue, entry>>
        /\ UNCHANGED <<juroVars, fussVars, adapter, mutex>>

\* guard = event_guard { listener }: event_guard::operator= releases the
\* event the guard held and takes the listener
GuardAssign ==
    \E g \in DOMAIN guards : \E e \in 1..Len(events) :
        /\ Callable
        /\ guards[g] # e
        /\ events' = release(events, guards[g])
        /\ guards' = [guards EXCEPT ![g] = e]
        /\ UNCHANGED <<timers, counter, pc, now, queue, entry>>
        /\ UNCHANGED <<juroVars, fussVars, adapter, mutex>>

\* event_guard::~event_guard
GuardDestroyOf(g) ==
    /\ Callable
    /\ guards[g] # 0
    /\ events' = release(events, guards[g])
    /\ guards' = [guards EXCEPT ![g] = 0]
    /\ UNCHANGED <<timers, counter, pc, now, queue, entry>>
    /\ UNCHANGED <<juroVars, fussVars, adapter, mutex>>

GuardDestroy == \E g \in DOMAIN guards : GuardDestroyOf(g)

\* event_loop::process(time), up to the loop: the time source is monotonic
ProcessBegin ==
    \E time \in counter..MaxTime :
        /\ pc = "idle"
        /\ LET due == get_due_timers(timers, <<>>, time)
           IN  /\ queue' = due.queue
               /\ timers' = due.timers
        /\ now' = time
        /\ entry' = 1
        /\ pc' = "loop"
        /\ UNCHANGED <<events, counter, guards>>
        /\ UNCHANGED <<juroVars, fussVars, adapter, mutex>>

\* process: the entry is a cancelled event, which stays in the queue
ProcessSkip ==
    /\ pc = "loop"
    /\ entry <= Len(queue)
    /\ events[queue[entry]].cancelled
    /\ entry' = entry + 1
    /\ UNCHANGED <<timers, events, counter, guards, pc, now, queue>>
    /\ UNCHANGED <<juroVars, fussVars, adapter, mutex>>

\* A loop that fires the entry without a look at its cancelled flag
ProcessFireCancelled ==
    /\ pc = "loop"
    /\ entry <= Len(queue)
    /\ events[queue[entry]].due_time <= now
    /\ entry' = entry + 1
    /\ pc' = "fire"
    /\ events' = [events EXCEPT ![queue[entry]].fired = TRUE,
                                ![queue[entry]].fire_time = now,
                                ![queue[entry]].rescheduled = FALSE,
                                ![queue[entry]].call_time = 0]
    /\ UNCHANGED <<timers, counter, guards, now, queue>>
    /\ UNCHANGED <<juroVars, fussVars, adapter, mutex>>

\* process: the entry is due, event->fire() enters its handler
ProcessFire ==
    /\ pc = "loop"
    /\ entry <= Len(queue)
    /\ ~events[queue[entry]].cancelled
    /\ events[queue[entry]].due_time <= now
    /\ entry' = entry + 1
    /\ pc' = "fire"
    /\ events' = [events EXCEPT ![queue[entry]].fired = TRUE,
                                ![queue[entry]].fire_time = now,
                                ![queue[entry]].rescheduled = FALSE,
                                ![queue[entry]].call_time = 0]
    /\ fire(queue[entry])
    /\ UNCHANGED <<timers, counter, guards, now, queue, mutex>>
    /\ UNCHANGED fussVars

\* A loop that goes past a rescheduled entry and leaves it in the queue
ProcessRelocateSkipped ==
    /\ pc = "loop"
    /\ entry <= Len(queue)
    /\ ~events[queue[entry]].cancelled
    /\ events[queue[entry]].due_time > now
    /\ entry' = entry + 1
    /\ UNCHANGED <<timers, events, counter, guards, pc, now, queue>>
    /\ UNCHANGED <<juroVars, fussVars, adapter, mutex>>

\* process: the entry has been rescheduled, it moves to the slot of its
\* due time
ProcessRelocate ==
    /\ pc = "loop"
    /\ entry <= Len(queue)
    /\ ~events[queue[entry]].cancelled
    /\ events[queue[entry]].due_time > now
    /\ timers' = emplace_back(timers, events[queue[entry]].due_time,
                              queue[entry])
    /\ queue' = erase(queue, entry)
    /\ UNCHANGED <<events, counter, guards, pc, now, entry>>
    /\ UNCHANGED <<juroVars, fussVars, adapter, mutex>>

\* A loop that leaves a recurring event in the queue when its handler returns
HandlerReturnKept ==
    /\ pc = "fire"
    /\ pc' = "loop"
    /\ UNCHANGED <<timers, queue, entry, events, counter, guards, now>>
    /\ UNCHANGED <<juroVars, fussVars, adapter, mutex>>

\* process: the handler returns; a recurring event moves to its next slot
\* unless it is cancelled
HandlerReturnUncancelled ==
    /\ pc = "fire"
    /\ IF /\ events[queue[entry - 1]].recurring
          /\ ~events[queue[entry - 1]].cancelled
       THEN /\ timers' = emplace_back(timers,
                                      recurring_slot(now, queue[entry - 1]),
                                      queue[entry - 1])
            /\ queue' = erase(queue, entry - 1)
            /\ entry' = entry - 1
       ELSE UNCHANGED <<timers, queue, entry>>
    /\ pc' = "loop"
    /\ UNCHANGED <<events, counter, guards, now>>
    /\ UNCHANGED <<juroVars, fussVars, adapter, mutex>>

\* process: the handler returns; a recurring event moves to its next slot,
\* any other stays in the queue
HandlerReturn ==
    /\ pc = "fire"
    /\ IF events[queue[entry - 1]].recurring
       THEN /\ timers' = emplace_back(timers,
                                      recurring_slot(now, queue[entry - 1]),
                                      queue[entry - 1])
            /\ queue' = erase(queue, entry - 1)
            /\ entry' = entry - 1
       ELSE UNCHANGED <<timers, queue, entry>>
    /\ pc' = "loop"
    /\ UNCHANGED <<events, counter, guards, now>>
    /\ UNCHANGED <<juroVars, fussVars, adapter, mutex>>

\* process: the loop is over, the counter takes the time and the queue is
\* destroyed with the events left in it
ProcessEnd ==
    /\ pc = "loop"
    /\ entry > Len(queue)
    /\ counter' = now
    /\ events' = [e \in 1..Len(events) |->
                     IF \E i \in 1..Len(queue) : queue[i] = e
                     THEN destroyed
                     ELSE events[e]]
    /\ queue' = <<>>
    /\ entry' = 1
    /\ pc' = "idle"
    /\ UNCHANGED <<timers, guards, now>>
    /\ UNCHANGED <<juroVars, fussVars, adapter, mutex>>

\* A move assignment that takes the listener and leaves the event the
\* guard held alone
move_assign_unreleased(g, other) ==
    /\ Callable
    /\ events' = events
    /\ guards' = [[guards EXCEPT ![other] = 0] EXCEPT ![g] = guards[other]]
    /\ UNCHANGED <<timers, counter, pc, now, queue, entry>>
    /\ UNCHANGED <<juroVars, fussVars, adapter, mutex>>

\* event_guard::operator=(event_guard &&other): release(), then the move of
\* other.listener into listener, which leaves other.listener empty and, when
\* other is the guard itself, the listener as it was
move_assign(g, other) ==
    /\ Callable
    /\ events' = release(events, guards[g])
    /\ guards' = [[guards EXCEPT ![other] = 0] EXCEPT ![g] = guards[other]]
    /\ UNCHANGED <<timers, counter, pc, now, queue, entry>>
    /\ UNCHANGED <<juroVars, fussVars, adapter, mutex>>

\* guard = std::move(other), for two guards one of which holds a listener
GuardMove ==
    \E g \in DOMAIN guards : \E other \in DOMAIN guards \ {g} :
        /\ guards[g] + guards[other] > 0
        /\ move_assign(g, other)

\* guard = std::move(guard)
GuardSelfMove ==
    \E g \in DOMAIN guards :
        /\ guards[g] # 0
        /\ move_assign(g, g)

\* The program that keeps two event guards, and cancels through them only
TwoGuards == {"guard_1", "guard_2"}

GuardInit ==
    /\ timers = timer_map
    /\ events = <<>>
    /\ counter = 0
    /\ guards = [g \in TwoGuards |-> 0]
    /\ adapter = no_adapter
    /\ mutex = "unlocked"
    /\ pc = "idle"
    /\ now = 0
    /\ queue = <<>>
    /\ entry = 1

GuardNext ==
    \/ Schedule
    \/ GuardAssign
    \/ GuardDestroy
    \/ GuardMove
    \/ GuardSelfMove
    \/ ProcessBegin
    \/ ProcessSkip
    \/ ProcessFire
    \/ HandlerReturn
    \/ ProcessEnd

\* The lambda debounce(delay, functor) returns, called with args: the event
\* its guard holds is rescheduled if the listener locks, and scheduled with
\* the arguments otherwise
debounce(args) ==
    LET listener == guards["guard"]
        slot == schedule_slot(adapter.delay, "delayed")
    IN  /\ Callable
        /\ IF listener # 0 /\ events[listener].alive
           THEN /\ events' = event_reschedule(events, listener,
                                              counter + adapter.delay)
                /\ UNCHANGED <<timers, guards>>
           ELSE /\ Len(events) < MaxEvents
                /\ events' = Append(release(events, listener),
                                    [event(schedule_recurring("delayed"),
                                           adapter.delay, slot)
                                        EXCEPT !.handler = "debounced",
                                               !.args = args,
                                               !.call_time = CallTime])
                /\ timers' = emplace_back(timers, slot, Len(events) + 1)
                /\ guards' = [guards EXCEPT !["guard"] = Len(events) + 1]
        /\ adapter' = [adapter EXCEPT !.called = TRUE,
                                      !.call_counter = counter,
                                      !.call_args = args]
        /\ UNCHANGED <<counter, pc, now, queue, entry, mutex>>
        /\ UNCHANGED <<juroVars, fussVars>>

Debounce == \E args \in Values : debounce(args)

\* The program that makes one debouncer or one throttler with some delay,
\* calls it and schedules events
AdapterInit ==
    /\ timers = timer_map
    /\ events = <<>>
    /\ counter = 0
    /\ guards = [g \in Guards |-> 0]
    /\ adapter \in {[no_adapter EXCEPT !.delay = delay] :
                       delay \in 0..MaxDelay}
    /\ mutex = "unlocked"
    /\ pc = "idle"
    /\ now = 0
    /\ queue = <<>>
    /\ entry = 1

DebounceNext ==
    \/ Debounce
    \/ Schedule
    \/ ProcessBegin
    \/ ProcessFire
    \/ ProcessRelocate
    \/ HandlerReturn
    \/ ProcessEnd

\* The lambda throttle(delay, functor) returns, called with args: when armed
\* it disarms, schedules the event that arms it again, which its guard
\* takes, and invokes the functor; when not, it does nothing
throttle(args) ==
    LET listener == guards["guard"]
        slot == schedule_slot(adapter.delay, "delayed")
    IN  /\ Callable
        /\ IF adapter.armed
           THEN /\ Len(events) < MaxEvents
                /\ events' = Append(release(events, listener),
                                    [event(schedule_recurring("delayed"),
                                           adapter.delay, slot)
                                        EXCEPT !.handler = "armed = true",
                                               !.call_time = CallTime])
                /\ timers' = emplace_back(timers, slot, Len(events) + 1)
                /\ guards' = [guards EXCEPT !["guard"] = Len(events) + 1]
                /\ adapter' = [adapter EXCEPT !.armed = FALSE,
                                              !.invoked = Append(@, args),
                                              !.called = TRUE,
                                              !.call_counter = counter,
                                              !.call_args = args]
           ELSE /\ adapter' = [adapter EXCEPT !.call_args = args]
                /\ UNCHANGED <<timers, events, guards>>
        /\ UNCHANGED <<counter, pc, now, queue, entry, mutex>>
        /\ UNCHANGED <<juroVars, fussVars>>

Throttle == \E args \in Values : throttle(args)

ThrottleNext ==
    \/ Throttle
    \/ Schedule
    \/ ProcessBegin
    \/ ProcessFire
    \/ HandlerReturn
    \/ ProcessEnd

\* event_loop::timeout(delay, promise): juro::race(promise, wait(delay)).
\* wait() makes a promise and schedules the delayed event that resolves it
timeout(delay, p) ==
    LET h == make_promise(Heap, FALSE, FALSE)
        wait == Len(h.promises)
        slot == schedule_slot(delay, "delayed")
    IN  /\ Callable
        /\ Running
        /\ Held < MaxPromises
        /\ Len(events) < MaxEvents
        /\ p \in Attachable(Heap)
        /\ events' = Append(events,
                            [event(schedule_recurring("delayed"), delay, slot)
                                EXCEPT !.handler = "promise->resolve()",
                                       !.args = wait,
                                       !.call_time = CallTime])
        /\ timers' = emplace_back(timers, slot, Len(events) + 1)
        /\ Settles(race(h, <<p, wait>>))
        /\ UNCHANGED <<counter, guards, pc, now, queue, entry, adapter, mutex>>
        /\ UNCHANGED fussVars

Timeout ==
    \E delay \in 0..MaxDelay : \E p \in 1..Len(promises) : timeout(delay, p)

\* The program that makes promises, settles them, attaches handlers and
\* races them against a delay, between process() calls and from handlers
TimeoutNext ==
    \/ Callable /\ MakePending
    \/ Callable /\ MakeResolved
    \/ Callable /\ MakeRejected
    \/ Callable /\ Resolve
    \/ Callable /\ Reject
    \/ Callable /\ Then
    \/ Timeout
    \/ ProcessBegin
    \/ ProcessFire
    \/ HandlerReturn
    \/ ProcessEnd

\* A reschedule() that moves the event to the slot of its new due time
RescheduleStored ==
    \E e \in 1..Len(events) : \E time_point \in 0..MaxTime :
        /\ Callable
        /\ events[e].alive
        /\ events' = event_reschedule(events, e, time_point)
        /\ timers' =
              IF \E i \in 1..Len(timers) :
                    \E k \in 1..Len(timers[i].events) :
                        timers[i].events[k] = e
              THEN emplace_back(
                       [i \in 1..Len(timers) |->
                           [timers[i] EXCEPT
                               !.events = SelectSeq(@, LAMBDA x : x # e)]],
                       time_point, e)
              ELSE timers
        /\ UNCHANGED <<counter, guards, pc, now, queue, entry>>
        /\ UNCHANGED <<juroVars, fussVars, adapter, mutex>>

\* listener.lock()->reschedule(time_point), or reschedule() on the event a
\* handler receives, with any time point
RescheduleTo ==
    \E e \in 1..Len(events) : \E time_point \in 0..MaxTime :
        /\ Callable
        /\ events[e].alive
        /\ events' = event_reschedule(events, e, time_point)
        /\ UNCHANGED <<timers, counter, guards, pc, now, queue, entry>>
        /\ UNCHANGED <<juroVars, fussVars, adapter, mutex>>

\* The program that reschedules its events to any time
RescheduleNext ==
    \/ Schedule
    \/ Cancel
    \/ RescheduleTo
    \/ ProcessBegin
    \/ ProcessSkip
    \/ ProcessFire
    \/ ProcessRelocate
    \/ HandlerReturn
    \/ ProcessEnd

\* The time of the process() call that runs while another thread calls the
\* loop, or of the last one that returned
ThreadTime == IF pc = "idle" THEN counter ELSE now

\* A schedule() of another thread that stores its event without the lock
ThreadStoreUnlocked ==
    \E policy \in schedule_policy : \E delay \in Delays(policy) :
        /\ mutex # "unlocked"
        /\ Len(events) < MaxEvents
        /\ events' = Append(events,
                            [event(schedule_recurring(policy), delay,
                                   schedule_slot(delay, policy))
                                EXCEPT !.call_time = ThreadTime])
        /\ timers' = emplace_back(timers, schedule_slot(delay, policy),
                                  Len(events) + 1)
        /\ mutex' = IF mutex = "thread" THEN "unlocked" ELSE mutex
        /\ UNCHANGED <<counter, guards, pc, now, queue, entry, adapter>>
        /\ UNCHANGED <<juroVars, fussVars>>

\* schedule(delay, policy, functor) of another thread: std::lock_guard
\* takes the mutex
ThreadLock ==
    /\ mutex = "unlocked"
    /\ Len(events) < MaxEvents
    /\ mutex' = "thread"
    /\ UNCHANGED <<timers, events, counter, guards, pc, now, queue, entry>>
    /\ UNCHANGED <<juroVars, fussVars, adapter>>

\* schedule(delay, policy, functor) of another thread: it reads the
\* counter, stores the event and returns, which releases the mutex
ThreadStore ==
    \E policy \in schedule_policy : \E delay \in Delays(policy) :
        /\ mutex = "thread"
        /\ events' = Append(events,
                            [event(schedule_recurring(policy), delay,
                                   schedule_slot(delay, policy))
                                EXCEPT !.call_time = ThreadTime])
        /\ timers' = emplace_back(timers, schedule_slot(delay, policy),
                                  Len(events) + 1)
        /\ mutex' = "unlocked"
        /\ UNCHANGED <<counter, guards, pc, now, queue, entry, adapter>>
        /\ UNCHANGED <<juroVars, fussVars>>

\* schedule() of the thread that calls process(), from a handler or between
\* two process() calls: its lock_guard needs the mutex
LockedSchedule == mutex = "unlocked" /\ Schedule

\* process(now): get_due_timers takes the mutex
ProcessLock ==
    \E time \in counter..MaxTime :
        /\ pc = "idle"
        /\ mutex = "unlocked"
        /\ mutex' = "process"
        /\ now' = time
        /\ pc' = "due"
        /\ UNCHANGED <<timers, events, counter, guards, queue, entry>>
        /\ UNCHANGED <<juroVars, fussVars, adapter>>

\* process(now): get_due_timers walks the timer map and returns the queue,
\* which releases the mutex
ProcessDue ==
    /\ pc = "due"
    /\ LET due == get_due_timers(timers, <<>>, now)
       IN  /\ queue' = due.queue
           /\ timers' = due.timers
    /\ entry' = 1
    /\ pc' = "loop"
    /\ mutex' = "unlocked"
    /\ UNCHANGED <<events, counter, guards, now>>
    /\ UNCHANGED <<juroVars, fussVars, adapter>>

\* process(now): the handler of an event that is not recurring returns
ProcessReturn ==
    /\ pc = "fire"
    /\ ~events[queue[entry - 1]].recurring
    /\ HandlerReturn

\* process(now): the handler of a recurring event returns and the
\* lock_guard of the re-insertion takes the mutex
ProcessSpliceLock ==
    /\ pc = "fire"
    /\ events[queue[entry - 1]].recurring
    /\ mutex = "unlocked"
    /\ mutex' = "process"
    /\ pc' = "splice"
    /\ UNCHANGED <<timers, events, counter, guards, now, queue, entry>>
    /\ UNCHANGED <<juroVars, fussVars, adapter>>

\* process(now): the recurring event moves to its next slot and the
\* lock_guard releases the mutex
ProcessSplice ==
    /\ pc = "splice"
    /\ timers' = emplace_back(timers, recurring_slot(now, queue[entry - 1]),
                              queue[entry - 1])
    /\ queue' = erase(queue, entry - 1)
    /\ entry' = entry - 1
    /\ pc' = "loop"
    /\ mutex' = "unlocked"
    /\ UNCHANGED <<events, counter, guards, now>>
    /\ UNCHANGED <<juroVars, fussVars, adapter>>

\* The program with a thread that calls process() and schedule(), and
\* another one that calls schedule()
ThreadsNext ==
    \/ ThreadLock
    \/ ThreadStore
    \/ LockedSchedule
    \/ Cancel
    \/ ProcessLock
    \/ ProcessDue
    \/ ProcessSkip
    \/ ProcessFire
    \/ ProcessReturn
    \/ ProcessSpliceLock
    \/ ProcessSplice
    \/ ProcessEnd

FugaxInit ==
    /\ timers = timer_map
    /\ events = <<>>
    /\ counter = 0
    /\ guards = [g \in Guards |-> 0]
    /\ adapter = no_adapter
    /\ mutex = "unlocked"
    /\ pc = "idle"
    /\ now = 0
    /\ queue = <<>>
    /\ entry = 1

FugaxNext ==
    \/ Schedule
    \/ Cancel
    \/ Reschedule
    \/ GuardAssign
    \/ GuardDestroy
    \/ ProcessBegin
    \/ ProcessSkip
    \/ ProcessFire
    \/ ProcessRelocate
    \/ HandlerReturn
    \/ ProcessEnd

\* The program that schedules with the policies immediate and always only
UndelayedNext ==
    \/ ScheduleUndelayed
    \/ Cancel
    \/ Reschedule
    \/ GuardAssign
    \/ GuardDestroy
    \/ ProcessBegin
    \/ ProcessSkip
    \/ ProcessFire
    \/ ProcessRelocate
    \/ HandlerReturn
    \/ ProcessEnd

(***************************************************************************)
(* Fugax: properties.                                                      *)
(***************************************************************************)
Events == 1..Len(events)

\* The event is in a slot of the timer map
Stored(e) ==
    \E i \in 1..Len(timers) : \E k \in 1..Len(timers[i].events) :
        timers[i].events[k] = e

\* The slot of the timer map the event is stored under
Slot(e) ==
    LET i == CHOOSE i \in 1..Len(timers) :
                 \E k \in 1..Len(timers[i].events) : timers[i].events[k] = e
    IN  timers[i].time_point

\* The event is in the queue of the process() call in progress
Queued(e) == \E i \in 1..Len(queue) : queue[i] = e

\* process() is running the handler of the event
Firing(e) == pc = "fire" /\ queue[entry - 1] = e

\* The loop of process() has gone past the event, which stayed in the queue
Passed(e) == \E i \in 1..(entry - 1) : queue[i] = e

\* A step of process() that invokes the handler of the event
Fires(e) == pc = "loop" /\ pc' = "fire" /\ queue[entry] = e

\* The step process(time) begins with
Begins(time) == pc = "idle" /\ pc' = "loop" /\ now' = time

\* The step process() returns with
Returns == pc = "loop" /\ pc' = "idle"

\* process(time) takes into its queue all that is stored under the slots
\* up to time, and leaves the rest where it is
TakesDue(e, time) ==
    IF Slot(e) <= time
    THEN \E i \in 1..Len(queue') : queue'[i] = e
    ELSE timers' = timers \/ (Stored(e)' /\ Slot(e)' = Slot(e))

\* One-shot events that are neither cancelled nor rescheduled
OneShot ==
    {e \in Events : /\ events[e].alive
                    /\ ~events[e].recurring
                    /\ ~events[e].cancelled
                    /\ ~events[e].rescheduled}

\* C2: a one-shot event that is neither cancelled nor rescheduled has not
\* been invoked while it waits in the timer map, where schedule() put it
\* under its due time; process(now) leaves it there when now is before its
\* slot and takes it when now has reached the slot; the process() call that
\* took it invokes it, only once, keeps it in its queue and destroys it
\* when it returns
OneShotFiresOnce ==
    /\ [](\A e \in OneShot :
             /\ Stored(e) => ~events[e].fired /\ Slot(e) = events[e].due_time
             /\ Passed(e) => events[e].fired)
    /\ [][\A e \in OneShot :
             /\ \A time \in 0..MaxTime :
                    Begins(time) /\ Stored(e) => TakesDue(e, time)
             /\ Fires(e) => ~events[e].fired /\ events[e].due_time <= now
             /\ Queued(e) /\ events'[e].alive =>
                    Queued(e)' /\ (Passed(e) => Passed(e)')
             /\ Queued(e) /\ Returns =>
                    events[e].fired /\ ~events'[e].alive]_vars

\* A process() call is about to return after it invoked a one-shot event
\* that an earlier process() call, before the due time, had left alone
OneShotFired ==
    /\ pc = "loop"
    /\ entry > Len(queue)
    /\ \E e \in OneShot :
          /\ Queued(e)
          /\ events[e].fired
          /\ events[e].due_time = events[e].interval
          /\ 0 < counter
          /\ counter < events[e].due_time

\* Events cancel() was called on
Cancelled == {e \in Events : events[e].alive /\ events[e].cancelled}

\* C5: a cancelled event stays cancelled and its handler is not invoked;
\* process(now) takes it into its queue when now has reached the slot
\* it is stored under, keeps it there (unless it was cancelled by its own
\* handler, which is still running) and destroys it when it returns
CancelledNeverFires ==
    [][\A e \in Cancelled :
          /\ events'[e].alive => events'[e].cancelled
          /\ ~Fires(e)
          /\ \A time \in 0..MaxTime :
                 Begins(time) /\ Stored(e) => TakesDue(e, time)
          /\ Queued(e) /\ ~Firing(e) /\ events'[e].alive => Queued(e)'
          /\ Queued(e) /\ Returns => ~events'[e].alive]_vars

\* A process() call is about to return after it invoked a handler and then
\* went past a cancelled event that has never fired
CancelledSkipped ==
    /\ pc = "loop"
    /\ entry > Len(queue)
    /\ \E i \in 1..Len(queue) : \E k \in (i + 1)..Len(queue) :
          /\ events[queue[i]].fired
          /\ events[queue[k]].cancelled
          /\ ~events[queue[k]].fired

\* Recurring events that have fired and were not rescheduled since
Recurring ==
    {e \in Events : /\ events[e].alive
                    /\ events[e].recurring
                    /\ events[e].fired
                    /\ ~events[e].rescheduled}

\* C7: when the handler of a recurring event returns, the event goes under
\* the slot now + interval and stays there; process(now') leaves it there
\* when now' is before that slot and takes it when now' has reached it; the
\* process() call that took it fires it unless it is cancelled; and only
\* cancelled recurring events are destroyed
RecurringFiresAfterInterval ==
    /\ [](\A e \in Recurring :
             /\ Stored(e) =>
                    Slot(e) = events[e].fire_time + events[e].interval
             /\ Passed(e) => Firing(e) \/ events[e].cancelled)
    /\ [][\A e \in Events :
             /\ e \in Recurring =>
                    /\ Firing(e) /\ pc' = "loop" =>
                           /\ Stored(e)'
                           /\ Slot(e)' = now + events[e].interval
                    /\ \A time \in 0..MaxTime :
                           Begins(time) /\ Stored(e) => TakesDue(e, time)
                    /\ Fires(e) =>
                           now >= events[e].fire_time + events[e].interval
                    /\ Queued(e) /\ ~events[e].cancelled =>
                           \/ Queued(e)' /\ (Passed(e) => Passed(e)')
                           \/ Firing(e)
             /\ events[e].alive /\ events[e].recurring
                    /\ ~events'[e].alive => events[e].cancelled]_vars

\* A recurring event waits under the slot now + interval of the process(now)
\* call that fired it, and a later process() call, before that slot, has
\* returned
RecurringWaits ==
    /\ pc = "idle"
    /\ \E e \in Recurring :
          /\ Stored(e)
          /\ ~events[e].cancelled
          /\ events[e].fire_time < counter
          /\ counter < Slot(e)

\* One-shot events reschedule() was called on before they fired
RescheduledPending ==
    {e \in Events : /\ events[e].alive
                    /\ ~events[e].recurring
                    /\ ~events[e].cancelled
                    /\ events[e].rescheduled
                    /\ ~events[e].fired}

\* The loop of process() is at the event
Reached(e) == pc = "loop" /\ entry <= Len(queue) /\ queue[entry] = e

\* C17: a one-shot event rescheduled to t before it fired is not invoked by
\* a process(now) with now < t, which moves it under the slot t when it
\* took it, and it stays alive; process(now) with now >= t takes it and
\* invokes it when its loop reaches it; a one-shot event is not invoked a
\* second time and is destroyed when the process() call that invoked it
\* returns.
RescheduledFiresAtNewTime ==
    [][\A e \in Events :
          /\ e \in RescheduledPending =>
                 /\ Fires(e) => events[e].due_time <= now
                 /\ events'[e].alive
                 /\ \A time \in 0..MaxTime :
                        (Begins(time) /\ Stored(e)
                            /\ events[e].due_time <= time) => Queued(e)'
                 /\ Reached(e) =>
                        IF events[e].due_time <= now
                        THEN Fires(e)
                        ELSE Stored(e)' /\ Slot(e)' = events[e].due_time
          /\ (events[e].alive /\ ~events[e].recurring /\ events[e].fired) =>
                 /\ ~Fires(e)
                 /\ Returns => ~events'[e].alive]_vars

\* process(2) invoked a one-shot event that was scheduled without delay and
\* rescheduled to 2, after process(1) had returned
RescheduledFired ==
    /\ pc = "loop"
    /\ entry > Len(queue)
    /\ counter = 1
    /\ \E e \in Events :
          /\ Queued(e)
          /\ ~events[e].recurring
          /\ events[e].interval = 0
          /\ events[e].fired
          /\ events[e].fire_time = 2
          /\ events[e].due_time = 2

\* The events always(f) scheduled that are not cancelled: recurring, with
\* no interval, due since they were scheduled
Always ==
    {e \in Events : /\ events[e].alive
                    /\ events[e].recurring
                    /\ events[e].interval = 0
                    /\ ~events[e].cancelled
                    /\ events[e].due_time <= counter}

\* C18: an always(f) event that is not cancelled waits in the timer map or
\* in the queue of the process() call in progress; every process(now)
\* takes it, whatever now is, and invokes it when its loop reaches it; when
\* the handler returns the event is back in the timer map, where it stays
\* until the next process() call; and it stays alive.
AlwaysFiresEveryTick ==
    /\ [](\A e \in Always : Stored(e) # Queued(e))
    /\ [][\A e \in Always :
             /\ \A time \in 0..MaxTime :
                    Begins(time) /\ Stored(e) => Queued(e)'
             /\ Reached(e) => Fires(e)
             /\ Firing(e) /\ pc' = "loop" => Stored(e)' /\ Slot(e)' = now
             /\ Stored(e) /\ pc # "idle" => Stored(e)'
             /\ Returns => Stored(e)
             /\ events'[e].alive]_vars

\* process(now) is about to invoke an always(f) event that an earlier
\* process(now), with the same now, has invoked
AlwaysFiresAgain ==
    \E e \in Always :
        /\ Reached(e)
        /\ events[e].fired
        /\ events[e].fire_time = now
        /\ counter = now
        /\ now > events[e].due_time

\* The recurring events that are not cancelled and are due
RecurringDue ==
    {e \in Events : /\ events[e].alive
                    /\ events[e].recurring
                    /\ ~events[e].cancelled
                    /\ events[e].due_time <= counter}

\* C19: where schedule() is called with the policies immediate and always
\* only, whatever the delay, the new event goes under the slot of the
\* counter, every recurring event has the interval 0, and every process()
\* call takes the recurring events that are not cancelled and invokes them.
UndelayedIgnoresDelay ==
    /\ [](\A e \in Events : events[e].recurring => events[e].interval = 0)
    /\ [][/\ \A e \in Events' \ Events :
                /\ Stored(e)'
                /\ Slot(e)' = counter
                /\ events'[e].due_time = counter
          /\ \A e \in RecurringDue :
                /\ \A time \in 0..MaxTime :
                       Begins(time) /\ Stored(e) => Queued(e)'
                /\ Reached(e) => Fires(e)]_vars

\* An event scheduled with always and a delay that has fired waits under a
\* slot later than the counter: process(counter) will not invoke it
AlwaysWaitsForDelay ==
    \E e \in RecurringDue :
        /\ pc = "idle"
        /\ events[e].fired
        /\ events[e].interval > 0
        /\ Stored(e)
        /\ Slot(e) > counter

\* The one-shot events that wait for their first due time: schedule(delay,
\* delayed, f) gave them the delay as their interval
Delayed ==
    {e \in Events : /\ events[e].alive
                    /\ ~events[e].recurring
                    /\ ~events[e].cancelled
                    /\ ~events[e].rescheduled
                    /\ ~events[e].fired}

\* C20: process(now) invokes an event scheduled with the policy delayed and
\* the delay d only when now is at least d after the time schedule() was
\* called at, be it between two process() calls or by a handler.
DelayedWaitsForDelay ==
    [][\A e \in Delayed :
          Fires(e) => now - events[e].call_time >= events[e].interval]_vars

\* process(now) is about to invoke an event that a handler scheduled with a
\* delay that has not passed since
DelayedFiresEarly ==
    \E e \in Delayed :
        /\ Reached(e)
        /\ events[e].due_time <= now
        /\ now - events[e].call_time < events[e].interval

\* The place of a stored event in the list of its slot
PlaceInSlot(e) ==
    LET i == CHOOSE i \in 1..Len(timers) :
                 \E k \in 1..Len(timers[i].events) : timers[i].events[k] = e
    IN  CHOOSE k \in 1..Len(timers[i].events) : timers[i].events[k] = e

\* The entries of the queue the loop of process() has not reached yet
Ahead == SubSeq(queue, entry, Len(queue))

\* The one-shot events the process() call in progress has invoked
FiredInCall ==
    {e \in Events : /\ Passed(e)
                    /\ events[e].fired
                    /\ ~events[e].recurring
                    /\ ~events[e].rescheduled}

\* C21 as stated: process() invokes an event only after the events with a
\* lower due_time, never before one.
FiresInDueTimeOrder ==
    [][\A e \in Events : \A x \in FiredInCall :
          Fires(e) => events[x].due_time <= events[e].due_time]_vars

\* C21: the queue of process(now) holds the events in ascending order of the
\* slot they were stored under and, within a slot, in the order they were
\* put there; the loop takes the entries from the front of the queue, one
\* by one, and invokes the one it is at.
FiresInSlotOrder ==
    [][/\ \A time \in 0..MaxTime :
            Begins(time) =>
                \A i, k \in 1..Len(queue') :
                    i < k =>
                        \/ Slot(queue'[i]) < Slot(queue'[k])
                        \/ /\ Slot(queue'[i]) = Slot(queue'[k])
                           /\ PlaceInSlot(queue'[i]) < PlaceInSlot(queue'[k])
       /\ (pc # "idle" /\ pc' # "idle") =>
            IF pc = "loop" THEN Ahead' = Tail(Ahead) ELSE Ahead' = Ahead
       /\ \A e \in Events : Fires(e) => e = Head(Ahead)
      ]_vars

\* process() invoked two one-shot events of two slots, the one with the
\* later due time (it had been rescheduled) first
FiredInSlotOrder ==
    /\ pc = "loop"
    /\ entry > Len(queue)
    /\ \E i, k \in 1..Len(queue) :
          /\ i < k
          /\ queue[i] \in FiredInCall
          /\ queue[k] \in FiredInCall
          /\ events[queue[i]].due_time > events[queue[k]].due_time

\* No handler is entered or left by the step, and none has run that had not
SameInvocations ==
    /\ pc' = pc
    /\ \A x \in Events :
          /\ events'[x].fired = events[x].fired
          /\ events'[x].fire_time = events[x].fire_time

\* C22: the destructor of an event guard cancels the event of its listener
\* when the event is alive and changes nothing when it is destroyed, and in
\* both cases no handler runs; a cancelled event stays cancelled and
\* process() does not invoke it.
GuardDestroyCancels ==
    [][/\ \A g \in DOMAIN guards :
            GuardDestroyOf(g) =>
                /\ IF events[guards[g]].alive
                   THEN /\ events'[guards[g]].alive
                        /\ events'[guards[g]].cancelled
                        /\ \A x \in Events \ {guards[g]} :
                              events'[x] = events[x]
                   ELSE events' = events
                /\ SameInvocations
       /\ \A e \in Cancelled :
            /\ ~Fires(e)
            /\ events'[e].alive => events'[e].cancelled
      ]_vars

\* The guards are gone, and process() is about to return after it went past
\* the event of one of them, which has never fired
GuardedEventSkipped ==
    /\ pc = "loop"
    /\ entry > Len(queue)
    /\ \A g \in DOMAIN guards : guards[g] = 0
    /\ \E e \in Cancelled : Queued(e) /\ ~events[e].fired

\* C23: guard = std::move(other), for two guards that do not hold the same
\* event, cancels the event guard held if it is alive, leaves every other
\* event as it is, the event of other among them, gives guard the listener
\* of other and leaves other empty, so that the destructor of other has
\* nothing to cancel; no handler runs.
GuardMoveAdopts ==
    [][\A g \in DOMAIN guards : \A other \in DOMAIN guards \ {g} :
          (guards[g] # guards[other] /\ move_assign(g, other)) =>
              /\ \A x \in Events :
                    IF x = guards[g] /\ events[x].alive
                    THEN events'[x].alive /\ events'[x].cancelled
                    ELSE events'[x] = events[x]
              /\ guards'[g] = guards[other]
              /\ guards'[other] = 0
              /\ release(events', guards'[other]) = events'
              /\ SameInvocations
      ]_vars

\* A guard holds a live event that is not cancelled, the other guard is
\* empty, and the other event is cancelled
GuardMoved ==
    \E g \in DOMAIN guards : \E other \in DOMAIN guards \ {g} :
        /\ guards[other] = 0
        /\ guards[g] # 0
        /\ events[guards[g]].alive
        /\ ~events[guards[g]].cancelled
        /\ \E e \in Cancelled : e # guards[g]

\* C24: guard = std::move(guard) changes neither the events nor the guards.
GuardSelfMoveKeeps ==
    [][\A g \in DOMAIN guards :
          (guards[g] # 0 /\ move_assign(g, g)) =>
              events' = events /\ guards' = guards]_vars

\* A guard holds a live event that is cancelled, as after it was moved
\* into itself
GuardHoldsCancelled ==
    \E g \in DOMAIN guards :
        /\ guards[g] # 0
        /\ guards[g] \in Cancelled
        /\ \A other \in DOMAIN guards \ {g} : guards[other] = 0

\* The events of the debouncer
Debounced == {e \in Events : events[e].handler = "debounced"}

\* The step invokes the functor debounce() or throttle() was given
InvokesFunctor == adapter'.invoked # adapter.invoked

\* No process() call has run yet with the counter of the call plus the
\* delay as its now, or a later one
BeforeDeadline == pc = "idle" \/ now < counter + adapter.delay

\* C25: a call of the debounced lambda does not invoke the functor; unless
\* the running process() call is at or past counter + delay already, it
\* leaves an event of the debouncer that has not fired and is due at
\* counter + delay; the functor is invoked by a process(now) with
\* now >= (counter at the last call) + delay only, once for the calls since
\* its last invocation, and a process() call fires the event of the
\* debouncer it took before it returns.
DebounceDefersOnce ==
    [][/\ Debounce =>
             /\ ~InvokesFunctor
             /\ BeforeDeadline =>
                    \E e \in 1..Len(events') :
                        /\ events'[e].handler = "debounced"
                        /\ events'[e].alive
                        /\ ~events'[e].fired
                        /\ ~events'[e].cancelled
                        /\ events'[e].due_time = counter + adapter.delay
       /\ InvokesFunctor =>
             /\ pc = "loop"
             /\ now >= adapter.call_counter + adapter.delay
             /\ adapter.called
             /\ Len(adapter'.invoked) = Len(adapter.invoked) + 1
       /\ Returns => \A e \in Debounced : Queued(e) => events[e].fired
      ]_vars

\* A call of the debounced lambda waits for the functor, no process() call
\* has reached its delay, and the debouncer has no event
DebouncedCallLost ==
    /\ pc = "idle"
    /\ adapter.called
    /\ counter < adapter.call_counter + adapter.delay
    /\ \A e \in Debounced : ~events[e].alive

\* C26: the functor of the debouncer is invoked with the arguments of the
\* last call of the debounced lambda.
DebouncePassesLastArguments ==
    [][InvokesFunctor =>
           adapter'.invoked[Len(adapter'.invoked)] = adapter.call_args]_vars

\* The functor was invoked with the arguments of the first of two calls
DebouncedFirstArguments ==
    /\ adapter.invoked = <<1>>
    /\ adapter.call_args = 2
    /\ ~adapter.called

\* The events that arm the throttler
Arming == {e \in Events : events[e].handler = "armed = true"}

\* C27: a call of the throttled lambda made while it is armed invokes the
\* functor with the arguments of the call and disarms the lambda; a call
\* made while it is not invokes nothing; the lambda is armed again only by a
\* process(now) with now >= (counter at the disarming call) + delay, and
\* the first such call that begins takes the arming event, fires it before
\* it returns, and the lambda is armed from then on.
ThrottleDropsUntilDelay ==
    [][/\ \A args \in Values :
             throttle(args) =>
                 IF adapter.armed
                 THEN /\ adapter'.invoked = Append(adapter.invoked, args)
                      /\ ~adapter'.armed
                 ELSE /\ ~InvokesFunctor
                      /\ ~adapter'.armed
       /\ (adapter'.armed /\ ~adapter.armed) =>
             /\ pc = "loop"
             /\ now >= adapter.call_counter + adapter.delay
       /\ \A time \in 0..MaxTime :
             (/\ Begins(time)
              /\ ~adapter.armed
              /\ time >= adapter.call_counter + adapter.delay) =>
                 \E e \in Arming :
                     /\ \E i \in 1..Len(queue') : queue'[i] = e
                     /\ ~events[e].cancelled
                     /\ events[e].due_time <= time
       /\ \A e \in Arming : Fires(e) => adapter'.armed
       /\ Returns => \A e \in Arming : Queued(e) => events[e].fired
      ]_vars

\* The functor has been invoked by two calls with different arguments, the
\* second made after the arming event fired, in the same process() call
ThrottledAgain ==
    /\ Len(adapter.invoked) = 2
    /\ adapter.invoked[1] # adapter.invoked[2]
    /\ ~adapter.armed
    /\ \E e \in Arming : events[e].alive /\ events[e].fired

\* The events of wait()
Waiting == {e \in Events : events[e].handler = "promise->resolve()"}

\* The promise timeout() returned for coordinator c, the promise it was
\* given, and the promise of its wait()
TimeoutPromise(c) == coordinators'[c].promise
Raced(c) == coordinators'[c].inputs[1]
Wait(c) == coordinators'[c].inputs[2]

\* C28: the promise timeout(delay, p) returns has the state and the value or
\* error of p whenever p is settled and the wait has not elapsed; the event
\* of the wait is due at counter + delay, the first process(now) that begins
\* with now >= counter + delay takes it and fires it, and when it fires
\* while the returned promise is pending, the promise resolves with the
\* timeout value; once settled the returned promise does not change. (The
\* steps in which std::terminate is called are left out.)
TimeoutSettlesWithFirst ==
    [][exc' # Terminate =>
          /\ \A c \in 1..Len(coordinators') :
                /\ (c <= Len(coordinators)
                        /\ is_settled(Heap, TimeoutPromise(c))) =>
                      /\ promises'[TimeoutPromise(c)].state =
                             promises[TimeoutPromise(c)].state
                      /\ promises'[TimeoutPromise(c)].value =
                             promises[TimeoutPromise(c)].value
                /\ (promises'[Raced(c)].state # "PENDING"
                        /\ promises'[Wait(c)].state = "PENDING") =>
                      /\ promises'[TimeoutPromise(c)].state =
                             promises'[Raced(c)].state
                      /\ promises'[TimeoutPromise(c)].value =
                             promises'[Raced(c)].value
                /\ \A e \in Waiting :
                      (/\ Fires(e)
                       /\ events[e].args = Wait(c)
                       /\ is_pending(Heap, TimeoutPromise(c))) =>
                          /\ promises'[TimeoutPromise(c)].state = "RESOLVED"
                          /\ promises'[TimeoutPromise(c)].value =
                                 value_type(fugax_timeout)
          /\ \A delay \in 0..MaxDelay : \A p \in 1..Len(promises) :
                timeout(delay, p) =>
                    /\ events'[Len(events')].args = Wait(Len(coordinators'))
                    /\ events'[Len(events')].due_time = counter + delay
          /\ \A e \in Waiting :
                /\ Fires(e) => now >= events[e].due_time
                /\ \A time \in 0..MaxTime :
                      (Begins(time) /\ events[e].due_time <= time) =>
                          \E i \in 1..Len(queue') : queue'[i] = e
          /\ Returns => \A e \in Waiting : Queued(e) => events[e].fired
      ]_vars

\* A timeout promise resolved with the timeout value, and the promise it
\* raced was rejected afterwards
TimedOutThenRejected ==
    /\ exc # Terminate
    /\ \E c \in 1..Len(coordinators) :
          /\ promises[coordinators[c].promise].value =
                 value_type(fugax_timeout)
          /\ promises[coordinators[c].inputs[1]].state = "REJECTED"

\* The loop of process() is at the event, which is due and not cancelled
AtDue(e) ==
    /\ pc = "loop"
    /\ entry <= Len(queue)
    /\ queue[entry] = e
    /\ ~events[e].cancelled
    /\ events[e].due_time <= now

\* C31: an event a handler schedules while process(now) runs is put in the
\* timer map under the slot of its policy, and a recurring event whose
\* handler returned is put there under now + interval; neither is in the
\* queue of the call, which no event enters while the call runs, and the
\* call invokes events of its queue only. A later process(time) takes from
\* the timer map all that is stored under the slots up to time, and its loop
\* invokes the event it is at when the event is due and not cancelled.
ScheduledInCallWaits ==
    [][/\ (pc = "fire" /\ Len(events') > Len(events)) =>
            \E e \in 1..MaxEvents :
                /\ e = Len(events')
                /\ Stored(e)'
                /\ Slot(e)' = events'[e].due_time
                /\ ~Queued(e)'
       /\ (pc = "fire" /\ pc' = "loop"
                       /\ events[queue[entry - 1]].recurring) =>
            \E e \in Events :
                /\ e = queue[entry - 1]
                /\ Stored(e)'
                /\ Slot(e)' = now + events[e].interval
                /\ ~Queued(e)'
       /\ (pc # "idle" /\ pc' # "idle") =>
            \A e \in 1..MaxEvents : Queued(e)' => Queued(e)
       /\ \A e \in Events : Fires(e) => Queued(e) /\ ~Stored(e)
       /\ \A time \in 0..MaxTime :
            Begins(time) => \A e \in Events : Stored(e) => TakesDue(e, time)
       /\ \A e \in Events :
            (AtDue(e) /\ (pc' # pc \/ entry' # entry)) => Fires(e)
      ]_vars

\* A later process() call is about to invoke an event that a handler had
\* scheduled for a slot before the time of its own process() call
ScheduledInCallDue ==
    \E e \in Events :
        /\ AtDue(e)
        /\ events[e].alive
        /\ events[e].call_time > events[e].due_time
        /\ ~events[e].rescheduled

\* The handler of the recurring event returns to process(), having
\* cancelled the event
ReturnsCancelled(e) ==
    /\ pc = "fire"
    /\ pc' = "loop"
    /\ queue[entry - 1] = e
    /\ events[e].recurring
    /\ events[e].cancelled

\* C32 as stated: a recurring event cancelled during its own firing is not
\* in the timer map when its handler has returned.
CancelledInFiringNotStored ==
    [][\A e \in Events : ReturnsCancelled(e) => ~Stored(e)']_vars

\* C32: a recurring event cancelled during its own firing is put back in the
\* timer map under now + interval when its handler has returned, as any
\* recurring event is; it is not invoked again: the loop of process() passes
\* a cancelled event of its queue without invoking or moving it, and the
\* events left in the queue are destroyed when process() returns.
CancelledInFiringStoredUnfired ==
    [][/\ \A e \in Events :
            ReturnsCancelled(e) =>
                /\ Stored(e)'
                /\ Slot(e)' = now + events[e].interval
                /\ ~Queued(e)'
       /\ \A e \in Events :
            (pc = "loop" /\ entry <= Len(queue) /\ queue[entry] = e
                         /\ events[e].cancelled
                         /\ (pc' # pc \/ entry' # entry)) =>
                /\ ~Fires(e)
                /\ entry' = entry + 1
                /\ queue' = queue
                /\ timers' = timers
                /\ events' = events
       /\ Returns =>
            \A e \in Events : Queued(e) => events'[e] = destroyed
      ]_vars

\* The only event of the loop, recurring at every tick, was cancelled while
\* its handler ran and is in the timer map when the handler has returned
CancelledInFiringStored ==
    /\ pc = "loop"
    /\ Len(events) = 1
    /\ events[1].recurring
    /\ events[1].interval = 0
    /\ events[1].cancelled
    /\ events[1].fired
    /\ events[1].fire_time = now
    /\ Stored(1)
    /\ Slot(1) = now

\* The events of the timer map that were rescheduled to a time before the
\* slot they are stored under
RescheduledEarlier ==
    {e \in Events : /\ events[e].alive
                    /\ Stored(e)
                    /\ events[e].due_time < Slot(e)}

\* C39: reschedule() leaves the timer map as it is, so an event rescheduled
\* to a time before its slot stays under that slot. process(now) leaves it
\* there when now is before the slot, whatever its due time, and takes it
\* into its queue when now has reached the slot; a process() call invokes
\* events of the queue it took only, invokes the one its loop is at when it
\* is due and not cancelled, and returns when the loop has passed the whole
\* queue.
EarlierDueTimeWaitsForSlot ==
    [][/\ \A e \in Events :
            (events'[e].alive /\ events'[e].due_time # events[e].due_time)
                => (timers' = timers /\ queue' = queue)
       /\ \A time \in 0..MaxTime : \A e \in RescheduledEarlier :
            Begins(time) =>
                IF time < Slot(e)
                THEN Stored(e)' /\ Slot(e)' = Slot(e) /\ ~Queued(e)'
                ELSE Queued(e)' /\ ~Stored(e)'
       /\ (pc # "idle" /\ pc' # "idle") =>
            \A e \in Events : Queued(e)' => Queued(e)
       /\ \A e \in Events : Fires(e) => Queued(e)
       /\ \A e \in Events :
            (AtDue(e) /\ (pc' # pc \/ entry' # entry)) => Fires(e)
       /\ Returns => entry > Len(queue)
      ]_vars

\* The only event of the loop, never invoked, was scheduled before the last
\* process() call that returned, which left it under a later slot; it has
\* a due time that is not after that call, process(now) has taken it from
\* its slot and its loop is at it
RescheduledEarlierDue ==
    /\ Len(events) = 1
    /\ AtDue(1)
    /\ events[1].alive
    /\ ~events[1].fired
    /\ events[1].rescheduled
    /\ events[1].call_time < counter
    /\ events[1].due_time <= counter
    /\ counter < now

\* The recurring events with an interval
Periodic == {e \in Events : events[e].recurring /\ events[e].interval > 0}

\* C40: when the handler of a recurring event with an interval returns, the
\* event leaves the queue of the call for the slot now + interval, whatever
\* time it was due at, and it stays under that slot until the call returns,
\* so the call does not invoke it again: a process(now) call invokes such an
\* event only when it has not invoked it at that now before. A later
\* process(time) takes it when time has reached the slot and leaves it
\* there when not.
RecurringFiresOncePerCall ==
    [][\A e \in Periodic :
          /\ (Firing(e) /\ pc' = "loop") =>
                /\ Stored(e)'
                /\ Slot(e)' = now + events[e].interval
                /\ ~Queued(e)'
          /\ (Stored(e) /\ pc # "idle") =>
                /\ Stored(e)'
                /\ Slot(e)' = Slot(e)
                /\ ~Fires(e)
          /\ Fires(e) => ~(events[e].fired /\ events[e].fire_time = now)
          /\ \A time \in 0..MaxTime :
                (Begins(time) /\ Stored(e) /\ events[e].fired) =>
                    /\ Slot(e) >= events[e].fire_time + events[e].interval
                    /\ TakesDue(e, time)
      ]_vars

\* process(2) is at its end, the counter still at 0: it has invoked a
\* recurring event with the interval 1 that was due before 2, and the event
\* is under the slot 3
MissedActivationsSkipped ==
    \E e \in Periodic :
        /\ pc = "loop"
        /\ entry > Len(queue)
        /\ counter = 0
        /\ now = 2
        /\ events[e].interval = 1
        /\ events[e].due_time <= 1
        /\ ~events[e].rescheduled
        /\ events[e].fired
        /\ events[e].fire_time = now
        /\ Stored(e)
        /\ Slot(e) = 3

\* C36: process() holds the mutex in get_due_timers and in the re-insertion
\* of a recurring event, never while a handler runs, so a handler that
\* calls schedule() finds the mutex unlocked or held by another thread,
\* which releases it when its schedule() returns. schedule() stores its
\* event in the timer map under the slot of its policy while it holds the
\* mutex, and the timer map changes under the mutex only. The event is in
\* the timer map or in the queue of a process() call until that call
\* returns, having invoked or skipped it; get_due_timers takes all that is
\* stored under the slots up to now; the loop invokes the event it is at
\* when it is due and not cancelled, and an event that is not recurring is
\* invoked once.
ThreadScheduleStoredOnce ==
    /\ [](/\ mutex = "process" <=> pc \in {"due", "splice"}
          /\ pc = "fire" => mutex # "process"
          /\ (pc = "fire" /\ mutex = "unlocked" /\ Len(events) < MaxEvents)
                => ENABLED LockedSchedule
          /\ mutex = "thread" => ENABLED ThreadStore
          /\ \A e \in Events :
                events[e].alive => (Stored(e) /\ ~Queued(e))
                                   \/ (Queued(e) /\ ~Stored(e)))
    /\ [][/\ Len(events') > Len(events) =>
                /\ mutex = "thread" \/ (mutex = "unlocked" /\ Callable)
                /\ mutex' = "unlocked"
                /\ \E e \in 1..MaxEvents :
                      /\ e = Len(events')
                      /\ Stored(e)'
                      /\ Slot(e)' = events'[e].due_time
                      /\ ~Queued(e)'
          /\ timers' # timers => mutex # "unlocked" \/ mutex' # "unlocked"
                                 \/ Len(events') > Len(events)
          /\ \A e \in Events :
                (Fires(e) /\ ~events[e].recurring) => ~events[e].fired
          /\ \A e \in Events :
                (events[e].alive /\ ~events'[e].alive) =>
                    /\ Returns
                    /\ Queued(e)
                    /\ events[e].fired \/ events[e].cancelled
          /\ (pc = "due" /\ pc' = "loop") =>
                \A e \in Events : Stored(e) => TakesDue(e, now)
          /\ (pc # "idle" /\ pc' # "idle" /\ pc # "due") =>
                \A e \in 1..MaxEvents : Queued(e)' => Queued(e)
          /\ \A e \in Events :
                (AtDue(e) /\ (pc' # pc \/ entry' # entry)) => Fires(e)
         ]_vars

\* The only event of the loop, never invoked: another thread scheduled it
\* while process(now) ran, under a slot that now had reached; a later
\* process() call has taken it and its loop is at it
ScheduledByThreadDue ==
    /\ Len(events) = 1
    /\ AtDue(1)
    /\ events[1].alive
    /\ ~events[1].fired
    /\ events[1].call_time > events[1].due_time
    /\ mutex = "unlocked"

(***************************************************************************)
(* Fuss: the shouter, its handlers and their listeners.                    *)
(***************************************************************************)
\* The message types of the shouter
Messages == {"msg_1", "msg_2"}

\* No broadcast is in progress
Quiet == ""

\* The shouter's lists and the handlers, as the functions below change them
Bus == [handlers |-> handlers, functors |-> functors]

\* message::functor: the message of the list it is made for, whether its
\* element points into the list, and whether a shared pointer still owns
\* it; during: it was registered while a shout() of its message was
\* running, which has not returned yet
functor(message) ==
    [message |-> message, attached |-> TRUE, alive |-> TRUE,
     during |-> shouting = message]

\* shout() returns: no handler is registered during it any more
returned(list) ==
    [h \in 1..Len(list) |-> [list[h] EXCEPT !.during = FALSE]]

\* The handler is in the list of its message
Listed(bus, h) ==
    \E i \in 1..Len(bus.handlers[bus.functors[h].message]) :
        bus.handlers[bus.functors[h].message][i] = h

\* A listen that puts the handler in front of the list
listen_front(bus, message) ==
    [handlers |-> [bus.handlers EXCEPT
                      ![message] = <<Len(bus.functors) + 1>> \o @],
     functors |-> Append(bus.functors, functor(message))]

\* shouter::listen: emplaces the handler at the end of the list
listen(bus, message) ==
    [handlers |-> [bus.handlers EXCEPT
                      ![message] = Append(@, Len(bus.functors) + 1)],
     functors |-> Append(bus.functors, functor(message))]

\* A cancel that forgets the element and leaves it in the list
handler_cancel_detached(bus, h) ==
    [bus EXCEPT !.functors[h].attached = FALSE]

\* message::handler::cancel
handler_cancel(bus, h) ==
    IF bus.functors[h].attached
    THEN [handlers |-> [bus.handlers EXCEPT
                           ![bus.functors[h].message] =
                               SelectSeq(@, LAMBDA other : other # h)],
          functors |-> [bus.functors EXCEPT ![h].attached = FALSE]]
    ELSE bus

\* listener::cancel: cancels the handler if the weak pointer locks; the
\* lock is the last owner of a handler that left its list
listener_cancel(bus, h) ==
    IF bus.functors[h].alive
    THEN LET left == handler_cancel(bus, h)
         IN  [left EXCEPT !.functors[h].alive = Listed(left, h)]
    ELSE bus

\* The handler that follows h in the list, 0 at the end
Following(list, h) ==
    LET i == CHOOSE i \in 1..Len(list) : list[i] = h
    IN  IF i < Len(list) THEN list[i + 1] ELSE 0

(***************************************************************************)
(* Fuss: the calls of the program and the steps of shout().                *)
(***************************************************************************)
\* A handler does not cancel itself while shout() is invoking it
Cancellable(h) == h # element

\* shouter::listen<message>(f), by the program or by a running handler
Listen ==
    \E message \in Messages :
        /\ shouter
        /\ Len(functors) < MaxHandlers
        /\ handlers' = listen(Bus, message).handlers
        /\ functors' = listen(Bus, message).functors
        /\ UNCHANGED <<shouter, message_guards, cancelled, shouting,
                       element, invoked>>
        /\ UNCHANGED <<juroVars, fugaxVars>>

\* listener.cancel() on a listener of h
CancelCall(h) ==
    /\ Cancellable(h)
    /\ handlers' = listener_cancel(Bus, h).handlers
    /\ functors' = listener_cancel(Bus, h).functors
    /\ cancelled' = cancelled \cup {h}
    /\ UNCHANGED <<shouter, shouting, element, invoked>>
    /\ UNCHANGED <<juroVars, fugaxVars>>

CancelListener ==
    \E h \in 1..Len(functors) :
        /\ CancelCall(h)
        /\ UNCHANGED message_guards

\* message_guard guard { listener }
Guard ==
    \E h \in 1..Len(functors) :
        /\ h \notin message_guards
        /\ message_guards' = message_guards \cup {h}
        /\ UNCHANGED <<shouter, handlers, functors, cancelled, shouting,
                       element, invoked>>
        /\ UNCHANGED <<juroVars, fugaxVars>>

\* message_guard::~message_guard: release() cancels
GuardRelease ==
    \E h \in message_guards :
        /\ CancelCall(h)
        /\ message_guards' = message_guards \ {h}

\* shouter::shout<message>(args), to the call of the first handler, or to
\* the end when there is none
Shout ==
    \E message \in Messages :
        /\ shouter
        /\ shouting = Quiet
        /\ IF handlers[message] = <<>>
           THEN /\ invoked' = <<>>
                /\ UNCHANGED <<shouting, element>>
           ELSE /\ shouting' = message
                /\ element' = Head(handlers[message])
                /\ invoked' = <<Head(handlers[message])>>
        /\ exc' = NoExc
        /\ UNCHANGED <<shouter, handlers, functors, message_guards,
                       cancelled>>
        /\ UNCHANGED <<promises, coordinators, order, fugaxVars>>

\* shout: the handler returns and the loop moves on, to the call of the
\* next handler or to the end
ShoutNext ==
    /\ shouting # Quiet
    /\ LET next == Following(handlers[shouting], element)
       IN  IF next # 0
           THEN /\ element' = next
                /\ invoked' = Append(invoked, next)
                /\ UNCHANGED shouting
           ELSE /\ element' = 0
                /\ shouting' = Quiet
                /\ UNCHANGED invoked
    /\ functors' = IF shouting' = Quiet THEN returned(functors) ELSE functors
    /\ UNCHANGED <<shouter, handlers, message_guards, cancelled>>
    /\ UNCHANGED <<juroVars, fugaxVars>>

\* shouter::~shouter: the lists go, and the handlers with them
Destroy ==
    /\ shouter
    /\ shouting = Quiet
    /\ shouter' = FALSE
    /\ handlers' = [message \in Messages |-> <<>>]
    /\ functors' = [h \in 1..Len(functors) |->
                       [functors[h] EXCEPT !.alive = FALSE]]
    /\ UNCHANGED <<message_guards, cancelled, shouting, element, invoked>>
    /\ UNCHANGED <<juroVars, fugaxVars>>

\* The exception a handler raises
Raised == "handler exception"

\* A shout() that had swapped the list out when the exception leaves it
RaiseSwapped ==
    /\ shouting # Quiet
    /\ shouting' = Quiet
    /\ element' = 0
    /\ exc' = Raised
    /\ handlers' = [handlers EXCEPT ![shouting] = <<>>]
    /\ functors' = returned(functors)
    /\ UNCHANGED <<shouter, message_guards, cancelled, invoked>>
    /\ UNCHANGED <<promises, coordinators, order, fugaxVars>>

\* shout: the handler under the iterator raises, and the exception leaves
\* the loop and shout()
Raise ==
    /\ shouting # Quiet
    /\ shouting' = Quiet
    /\ element' = 0
    /\ exc' = Raised
    /\ functors' = returned(functors)
    /\ UNCHANGED <<shouter, handlers, message_guards, cancelled, invoked>>
    /\ UNCHANGED <<promises, coordinators, order, fugaxVars>>

\* The program whose handlers may raise
RaiseNext ==
    \/ Listen
    \/ CancelListener
    \/ Shout
    \/ ShoutNext
    \/ Raise

\* What is left of shout() when it has read a list node that was freed
Fault == "undefined behaviour"

\* The iterator of shout() when the node it points to was erased: the
\* freed node still has the pointer to the node that followed it, here the
\* handler of that node, or 0 for the end of the list
erased(next) == -1 - next

\* The handler the freed node under the iterator led to
stale_next == -1 - element

\* listener.cancel() by the handler shout() is invoking, on a listener of
\* itself: cancel() erases the node the iterator of shout() points to
CancelSelf ==
    /\ shouting # Quiet
    /\ element > 0
    /\ functors[element].alive
    /\ handlers' = listener_cancel(Bus, element).handlers
    /\ functors' = listener_cancel(Bus, element).functors
    /\ cancelled' = cancelled \cup {element}
    /\ element' = erased(Following(handlers[shouting], element))
    /\ UNCHANGED <<shouter, message_guards, shouting, invoked>>
    /\ UNCHANGED <<juroVars, fugaxVars>>

\* shout: the handler returns and the loop moves on from a node that is in
\* the list
ShoutListed ==
    /\ element > 0
    /\ ShoutNext

\* shout: the handler returns and the loop increments an iterator to a
\* node that was erased. The read of the freed node is undefined: it may
\* find the pointer the node had, which leads to the handler that followed
\* or to the end of the list, or it may not, and shout() does not return
ShoutErased ==
    /\ shouting # Quiet
    /\ element < 0
    /\ \/ /\ stale_next # 0
          /\ Listed(Bus, stale_next)
          /\ element' = stale_next
          /\ invoked' = Append(invoked, stale_next)
          /\ UNCHANGED <<shouting, functors, exc>>
       \/ /\ stale_next = 0
          /\ element' = 0
          /\ shouting' = Quiet
          /\ functors' = returned(functors)
          /\ UNCHANGED <<invoked, exc>>
       \/ /\ exc' = Fault
          /\ element' = 0
          /\ shouting' = Quiet
          /\ functors' = returned(functors)
          /\ UNCHANGED invoked
    /\ UNCHANGED <<shouter, handlers, message_guards, cancelled>>
    /\ UNCHANGED <<promises, coordinators, order, fugaxVars>>

\* The program whose handlers cancel handlers, themselves included
CancelNext ==
    \/ Listen
    \/ CancelListener
    \/ CancelSelf
    \/ Shout
    \/ ShoutListed
    \/ ShoutErased

FussInit ==
    /\ shouter = TRUE
    /\ handlers = [message \in Messages |-> <<>>]
    /\ functors = <<>>
    /\ message_guards = {}
    /\ cancelled = {}
    /\ shouting = Quiet
    /\ element = 0
    /\ invoked = <<>>

FussNext ==
    \/ Listen
    \/ CancelListener
    \/ Guard
    \/ GuardRelease
    \/ Shout
    \/ ShoutNext
    \/ Destroy

(***************************************************************************)
(* Fuss: properties.                                                       *)
(***************************************************************************)
Functors == 1..Len(functors)

\* A step of shout() that invokes the handler
Invokes(h) == element' = h /\ element # h

\* The step shout() returns with
ShoutReturns(message) ==
    \/ shouting = message /\ shouting' = Quiet
    \/ /\ shouting = Quiet /\ shouting' = Quiet
       /\ invoked' = <<>> /\ handlers[message] = <<>>
       /\ UNCHANGED <<handlers, functors, cancelled, message_guards, shouter>>

\* The handlers of a sequence that are still in the list of their message
Remaining(sequence) == SelectSeq(sequence, LAMBDA h : Listed(Bus, h))

\* C3: shout<M> invokes a handler only if it is in the list of M (it is
\* registered for M and not cancelled) and it has not invoked it before;
\* it invokes the handlers in the order of their registration, which is
\* the order of their numbers; and when it returns it has invoked every
\* handler that is in the list of M
ShoutInvokesRegistered ==
    /\ [](\A i \in 1..Len(invoked) : \A k \in 1..Len(invoked) :
             i < k => invoked[i] < invoked[k])
    /\ [][/\ \A h \in Functors :
                Invokes(h) =>
                    /\ functors[h].message = shouting'
                    /\ Listed(Bus, h)
                    /\ \A i \in 1..Len(invoked') - 1 : invoked'[i] # h
          /\ \A message \in Messages :
                ShoutReturns(message) =>
                    Remaining(invoked') = handlers[message]]_vars

\* A shout has returned after it invoked two handlers, while a handler of
\* the other message was registered
ShoutInvokedTwo ==
    /\ shouting = Quiet
    /\ Len(invoked) >= 2
    /\ \E h \in Functors :
          /\ functors[h].alive
          /\ functors[h].message # functors[invoked[1]].message

\* C6: once cancel() was called for a handler it is in no list and no
\* shout invokes it; a cancel() for it again, and any cancel() when the
\* shouter is destroyed, leaves the lists and the handlers as they are
ListenerCancelRemoves ==
    /\ [](\A h \in Functors :
             /\ h \in cancelled =>
                    ~Listed(Bus, h) /\ listener_cancel(Bus, h) = Bus
             /\ ~shouter => listener_cancel(Bus, h) = Bus
             /\ listener_cancel(listener_cancel(Bus, h), h) =
                    listener_cancel(Bus, h))
    /\ [][\A h \in Functors : Invokes(h) => h \notin cancelled]_vars

\* cancel() was called for a handler that a later shout then left out, and
\* for another handler after the shouter was destroyed
CancelledBeforeAndAfter ==
    /\ ~shouter
    /\ \E h \in cancelled :
          /\ ~functors[h].attached
          /\ invoked # <<>>
          /\ functors[h].message = functors[invoked[1]].message
          /\ h < invoked[1]
    /\ \E h \in cancelled : functors[h].attached

(***************************************************************************)
(* The specifications.                                                     *)
(***************************************************************************)
\* C29: shout<M> does not invoke a handler that was registered for M while
\* it was running; a later shout<M> that returns has invoked it, after the
\* handlers registered before it.
ListenDuringShoutWaits ==
    [][/\ \A h \in Functors : Invokes(h) => ~functors[h].during
       /\ \A h \in Functors :
             (/\ ShoutReturns(functors[h].message)
              /\ Listed(Bus, h)
              /\ ~functors[h].during) =>
                 \E i \in 1..Len(invoked') :
                     /\ invoked'[i] = h
                     /\ \A k \in 1..(i - 1) : invoked'[k] < h
      ]_vars

\* shout() has invoked a handler that was registered while it was running
ListenedDuringShoutInvoked ==
    /\ shouting # Quiet
    /\ element # 0
    /\ functors[element].during

\* C30: when a handler raises, the exception leaves shout(), which invokes
\* no further handler, and the lists and the handlers stay as they are; no
\* shout() invokes a handler twice; and a shout<M> that returns without an
\* exception has invoked every handler in the list of M, in the order of
\* registration.
RaiseLeavesShout ==
    /\ [](\A i \in 1..Len(invoked) : \A k \in 1..Len(invoked) :
             i < k => invoked[i] < invoked[k])
    /\ [](exc = Raised => shouting = Quiet)
    /\ [][/\ Raise =>
                /\ exc' = Raised
                /\ invoked' = invoked
                /\ handlers' = handlers
                /\ \A h \in Functors :
                      /\ functors'[h].attached = functors[h].attached
                      /\ functors'[h].alive = functors[h].alive
          /\ \A message \in Messages :
                (ShoutReturns(message) /\ exc' = NoExc) =>
                    Remaining(invoked') = handlers[message]
         ]_vars

\* An exception has left a shout before it reached the last handler of the
\* list
RaisedBeforeLast ==
    /\ shouting = Quiet
    /\ exc = Raised
    /\ invoked # <<>>
    /\ Len(invoked) < Len(handlers[functors[invoked[1]].message])

(***************************************************************************)
(* Fugax: a handler that throws. process() has no handler for exceptions:  *)
(* one that leaves event->fire() leaves process(), and the unwinding       *)
(* destroys the local queue with the events that are in it. The event that *)
(* was fired is one of them, for process() takes a recurring event out of  *)
(* the queue only after fire() has returned.                               *)
(***************************************************************************)

\* The event is gone with the queue that held it: its listeners are
\* expired; the other fields keep what the program saw of it
discarded(evs, list) ==
    [e \in 1..Len(evs) |->
        IF \E i \in 1..Len(list) : list[i] = e
        THEN [evs[e] EXCEPT !.alive = FALSE]
        ELSE evs[e]]

\* A throwing event that process() puts back in the timer map when it is
\* recurring
ProcessThrowReinserted ==
    /\ pc = "fire"
    /\ exc' = Raised
    /\ IF events[queue[entry - 1]].recurring
       THEN /\ timers' = emplace_back(timers,
                                      recurring_slot(now, queue[entry - 1]),
                                      queue[entry - 1])
            /\ events' = discarded(events, erase(queue, entry - 1))
       ELSE /\ timers' = timers
            /\ events' = discarded(events, queue)
    /\ queue' = <<>>
    /\ entry' = 1
    /\ pc' = "idle"
    /\ UNCHANGED <<counter, guards, now, adapter, mutex>>
    /\ UNCHANGED <<promises, coordinators, order, fussVars>>

\* An exception that leaves process() after the counter took the time
ProcessThrowCounted ==
    /\ pc = "fire"
    /\ exc' = Raised
    /\ events' = discarded(events, queue)
    /\ queue' = <<>>
    /\ entry' = 1
    /\ pc' = "idle"
    /\ counter' = now
    /\ UNCHANGED <<timers, guards, now, adapter, mutex>>
    /\ UNCHANGED <<promises, coordinators, order, fussVars>>

\* process: the handler throws; the exception leaves process(), the queue
\* is destroyed with the events in it and the counter is not written
ProcessThrow ==
    /\ pc = "fire"
    /\ exc' = Raised
    /\ events' = discarded(events, queue)
    /\ queue' = <<>>
    /\ entry' = 1
    /\ pc' = "idle"
    /\ UNCHANGED <<timers, counter, guards, now, adapter, mutex>>
    /\ UNCHANGED <<promises, coordinators, order, fussVars>>

\* The program whose handlers may throw
ThrowNext ==
    \/ Schedule
    \/ Cancel
    \/ ProcessBegin
    \/ ProcessSkip
    \/ ProcessFire
    \/ HandlerReturn
    \/ ProcessEnd
    \/ ProcessThrow

(***************************************************************************)
(* Fugax: properties of a handler that throws                              *)
(***************************************************************************)

\* The step an exception leaves the handler of the event and process() with
Throws(e) == pc = "fire" /\ pc' = "idle" /\ queue[entry - 1] = e

\* The timer map has its slots in ascending order of their keys and holds
\* events that are alive, each once; an event that is alive is in the timer
\* map or in the queue of the process() call in progress, never in both
Consistent ==
    /\ \A i, k \in 1..Len(timers) :
          i < k => timers[i].time_point < timers[k].time_point
    /\ \A i, k \in 1..Len(timers) :
          \A m \in 1..Len(timers[i].events) :
              \A n \in 1..Len(timers[k].events) :
                  /\ events[timers[i].events[m]].alive
                  /\ (timers[i].events[m] = timers[k].events[n]) =>
                         (i = k /\ m = n)
    /\ \A e \in Events : events[e].alive => (Stored(e) /\ ~Queued(e))
                                            \/ (Queued(e) /\ ~Stored(e))
    /\ pc = "idle" => queue = <<>>

\* C33 as stated: when a handler throws, the exception leaves process(), the
\* structures of the loop stay consistent, the event has left the queue of
\* the tick before, is not put back in the timer map and is not invoked by
\* a later process() call.
ThrowerLeftQueue ==
    /\ []Consistent
    /\ [][/\ \A e \in Events :
               Throws(e) => /\ exc' = Raised
                            /\ ~Queued(e)
                            /\ ~Stored(e)'
          /\ \A e \in Events : Fires(e) => events[e].alive
          /\ \A e \in Events : ~events[e].alive => ~events'[e].alive
         ]_vars

\* C33: when a handler throws, the exception leaves process() and the
\* structures of the loop stay consistent. The event is in the queue of the
\* tick when its handler throws, for a recurring event leaves the queue
\* only after fire() has returned; it is destroyed with the queue and the
\* timer map is left as it is, so the event is not put back there, even if
\* it is recurring, and no later process() call invokes it.
ThrowerDestroyedWithQueue ==
    /\ []Consistent
    /\ [][/\ \A e \in Events :
               Throws(e) => /\ exc' = Raised
                            /\ Queued(e)
                            /\ ~events'[e].alive
                            /\ ~Stored(e)'
                            /\ timers' = timers
                            /\ queue' = <<>>
          /\ \A e \in Events : Fires(e) => events[e].alive
          /\ \A e \in Events : ~events[e].alive => ~events'[e].alive
         ]_vars

\* The only event of the loop, a recurring one, has thrown out of process()
\* and is gone
RecurringThrowerGone ==
    /\ pc = "idle"
    /\ exc = Raised
    /\ Len(events) = 1
    /\ events[1].recurring
    /\ events[1].fired
    /\ ~events[1].alive
    /\ ~Stored(1)

\* The events of the queue that the loop of process() has not come to
Behind == {e \in Events : \E i \in entry..Len(queue) : queue[i] = e}

\* C37: when a handler throws during process(now), the events of the queue
\* that the loop had not come to are destroyed with the queue without being
\* invoked: their listeners are expired, they are not in the timer map, and
\* no process() call invokes them later; the timer map is left as it is and
\* the counter keeps the value it had before the call.
ThrowDiscardsRestOfQueue ==
    [][/\ \A e \in Events :
            Throws(e) =>
                /\ \A x \in Behind :
                      /\ ~events'[x].alive
                      /\ events'[x].fired = events[x].fired
                      /\ ~Stored(x)'
                      /\ ~Queued(x)'
                /\ timers' = timers
                /\ counter' = counter
       /\ \A time \in 0..MaxTime : Begins(time) => counter = counter'
       /\ pc # "idle" => counter' = counter \/ (Returns /\ counter' = now)
       /\ \A e \in Events : Fires(e) => events[e].alive
       /\ \A e \in Events : ~events[e].alive => events'[e] = events[e]
      ]_vars

\* A handler has thrown out of process(now): a due event that was queued
\* behind it is gone without having been invoked, and the counter is
\* before now
ThrownBeforeDue ==
    /\ pc = "idle"
    /\ exc = Raised
    /\ counter < now
    /\ \E e, x \in Events :
          /\ e # x
          /\ ~events[e].alive
          /\ events[e].fired
          /\ events[e].fire_time = now
          /\ ~events[x].alive
          /\ ~events[x].fired
          /\ ~events[x].cancelled
          /\ events[x].due_time <= now
          /\ ~Stored(x)

\* C34 as stated: a shout() during which a handler is cancelled, by itself
\* or by another handler, returns; it invokes no handler twice; and no
\* shout() invokes a handler that was cancelled.
CancelDuringShoutCompletes ==
    /\ [](exc # Fault)
    /\ [](\A i, k \in 1..Len(invoked) : i # k => invoked[i] # invoked[k])
    /\ [][\A h \in Functors : Invokes(h) => h \notin cancelled]_vars

\* A handler cancelled itself while shout() was invoking it, and shout()
\* did not come to the handler that followed it in the list
SelfCancelFaulted ==
    /\ exc = Fault
    /\ invoked # <<>>
    /\ invoked[Len(invoked)] \in cancelled
    /\ \E h \in Functors :
          /\ Listed(Bus, h)
          /\ functors[h].message = functors[invoked[Len(invoked)]].message
          /\ h > invoked[Len(invoked)]
          /\ ~functors[h].during

Init == JuroInit /\ FugaxInit /\ FussInit

SpecJuro == Init /\ [][JuroNext]_vars
SpecChain == Init /\ [][ChainNext]_vars

SpecFugax == Init /\ [][FugaxNext]_vars
SpecUndelayed == Init /\ [][UndelayedNext]_vars
\* The program with two event guards
InitGuards == JuroInit /\ GuardInit /\ FussInit

SpecGuard == InitGuards /\ [][GuardNext]_vars

SpecFuss == Init /\ [][FussNext]_vars

\* The program with a debouncer or a throttler
InitAdapter == JuroInit /\ AdapterInit /\ FussInit

SpecDebounce == InitAdapter /\ [][DebounceNext]_vars
SpecThrottle == InitAdapter /\ [][ThrottleNext]_vars
SpecTimeout == Init /\ [][TimeoutNext]_vars
SpecRaise == Init /\ [][RaiseNext]_vars
SpecThrow == Init /\ [][ThrowNext]_vars
SpecReschedule == Init /\ [][RescheduleNext]_vars
SpecThreads == Init /\ [][ThreadsNext]_vars
SpecCancel == Init /\ [][CancelNext]_vars
SpecReplace == Init /\ [][ReplaceNext]_vars
====
